---- MODULE Spec2Model ----
(***************************************************************************)
(* State-machine model of wp-local-remote-sync: the controllers            *)
(* (file push / pull, folder push / pull, database push / pull), the       *)
(* configuration service's two wholesale-rewritten files (sites.yaml and   *)
(* sync_state.json) and the external collaborators they drive (git, SFTP,  *)
(* SSH, WP-CLI), the latter as nondeterministic outcomes.                  *)
(*                                                                         *)
(* Every controller call runs on its own worker thread (main_window.py),   *)
(* so each controller is a process with a program counter; one action is   *)
(* one step of the code between two accesses to state another thread can   *)
(* see (the two files, git HEAD, the file systems).                        *)
(***************************************************************************)
EXTENDS Integers, Sequences, FiniteSets, TLC

VARIABLES
    sitesFile,    \* ~/.wp-deploy/sites.yaml: the list of stored site records
    syncFile,     \* ~/.wp-deploy/sync_state.json: site id -> sync state
    cfg,          \* the settings of the selected site that no operation writes
    head,         \* git HEAD of the site's repository
    now,          \* the local clock
    runs,         \* number of controller calls started so far
    push,         \* the PushController.push / push_all call
    pull,         \* the PullController.pull call
    db,           \* the DBPushController.push / DBPullController.pull call
    fold,         \* the push_folders / pull_folders call
    localMtime,   \* local copies of the remote files: mtime, or Absent
    remoteMtime,  \* remote files under the include paths: mtime
    dbFiles,      \* the dump and backup files of the database call
    zips,         \* the temporary archives of the folder call, per folder
    prevPull,     \* what the previous pull call returned
    cops,         \* the ConfigService calls in progress, per thread
    keyring,      \* the site ids the keyring holds credentials for
    gui,          \* the main window: worker thread, root.after queue, widget updates
    win,          \* the main window: buttons, worker threads, queued update_ui
    calc          \* a call of a pure function: its arguments and its result

vars == <<sitesFile, syncFile, cfg, head, now, runs, push, pull, db, fold,
          localMtime, remoteMtime, dbFiles, zips, prevPull, cops, keyring,
          gui, win, calc>>

\* what the controllers leave alone
otherVars == <<cops, keyring, gui, win, calc>>

\* what the ConfigService calls on the site list leave alone
controllerVars == <<syncFile, cfg, head, now, push, pull, db, fold,
                    localMtime, remoteMtime, dbFiles, zips, prevPull, gui, win,
                    calc>>

\* what the main window's threads leave alone
stores == <<sitesFile, syncFile, cfg, head, now, runs, push, pull, db, fold,
            localMtime, remoteMtime, dbFiles, zips, prevPull, cops, keyring>>

\* what the buttons of the main window and their threads leave alone
widgets == <<gui, calc>>

(***************************************************************************)
(* Bounds of the model.                                                    *)
(***************************************************************************)
MaxCommit == 3      \* commits are 1..MaxCommit
MaxTime == 2        \* the clock and the mtimes are 0..MaxTime
MaxRuns == 2        \* controller calls per behaviour (sequential specification)
MaxFolders == 2     \* folders handed to push_folders / pull_folders

Site == "s1"        \* the site selected in the GUI
Other == "s2"       \* another stored site
Absent == -1        \* no such file

(***************************************************************************)
(* Strings as sequences of characters, for the glob matching of            *)
(* utils/patterns.py.                                                      *)
(***************************************************************************)
PathChars(p) ==
    CASE p = "a.php" -> <<"a", ".", "p", "h", "p">>
      [] p = "b.php" -> <<"b", ".", "p", "h", "p">>
      [] p = "debug.log" -> <<"d", "e", "b", "u", "g", ".", "l", "o", "g">>
      [] p = "up/1.jpg" -> <<"u", "p", "/", "1", ".", "j", "p", "g">>
      [] p = "up/2.jpg" -> <<"u", "p", "/", "2", ".", "j", "p", "g">>
      [] p = "up/x.log" -> <<"u", "p", "/", "x", ".", "l", "o", "g">>
      [] p = "etc/3.jpg" -> <<"e", "t", "c", "/", "3", ".", "j", "p", "g">>
      [] p = "up" -> <<"u", "p">>
      [] p = "etc" -> <<"e", "t", "c">>
      [] p = "tmp" -> <<"t", "m", "p">>
      [] p = " " -> <<" ">>
      [] p = "*.log" -> <<"*", ".", "l", "o", "g">>
      [] p = ".git/" -> <<".", "g", "i", "t", "/">>
      [] p = "*.sql" -> <<"*", ".", "s", "q", "l">>
      [] p = "up\\x.log" -> <<"u", "p", "\\", "x", ".", "l", "o", "g">>
      [] p = "up/cache" -> <<"u", "p", "/", "c", "a", "c", "h", "e">>
      [] p = "cache/a.php" -> <<"c", "a", "c", "h", "e", "/", "a", ".", "p", "h", "p">>
      [] p = "cache\\a.php" -> <<"c", "a", "c", "h", "e", "\\", "a", ".", "p", "h", "p">>
      [] p = "cache/" -> <<"c", "a", "c", "h", "e", "/">>
      [] p = "cache\\" -> <<"c", "a", "c", "h", "e", "\\">>
      [] p = "up/*" -> <<"u", "p", "/", "*">>
      [] p = "up\\*" -> <<"u", "p", "\\", "*">>

RECURSIVE fnmatch(_, _)
fnmatch(name, pat) ==
    IF pat = <<>> THEN name = <<>>
    ELSE IF Head(pat) = "*"
         THEN fnmatch(name, Tail(pat)) \/ (name # <<>> /\ fnmatch(Tail(name), pat))
         ELSE /\ name # <<>>
              /\ (Head(pat) = "?" \/ Head(pat) = Head(name))
              /\ fnmatch(Tail(name), Tail(pat))

\* f'/{pattern}' in f'/{file_path}/'
Contains(s, sub) ==
    \E i \in 1..(Len(s) - Len(sub) + 1) : SubSeq(s, i, i + Len(sub) - 1) = sub

\* Path(file_path).name
BaseName(s) ==
    LET slashes == {i \in 1..Len(s) : s[i] = "/"}
    IN  IF slashes = {} THEN s
        ELSE SubSeq(s, (CHOOSE i \in slashes : \A j \in slashes : j <= i) + 1, Len(s))

\* the characters as they are written
KeepBackslash(s) == s

Unbackslash(s) == [i \in 1..Len(s) |-> IF s[i] = "\\" THEN "/" ELSE s[i]]

should_exclude(file_path, exclude_patterns) ==
    LET fp == Unbackslash(PathChars(file_path))
    IN  \E k \in 1..Len(exclude_patterns) :
          LET pat == Unbackslash(PathChars(exclude_patterns[k]))
          IN  \/ fnmatch(fp, pat)
              \/ /\ pat[Len(pat)] = "/"
                 /\ Contains(<<"/">> \o fp \o <<"/">>, <<"/">> \o pat)
              \/ fnmatch(BaseName(fp), pat)

filter_files(files, exclude_patterns) ==
    SelectSeq(files, LAMBDA f : ~should_exclude(f, exclude_patterns))

(***************************************************************************)
(* The git repository: three paths; Blob(c, f) is the content of f in      *)
(* commit c, 0 when the commit does not track f.                           *)
(***************************************************************************)
RepoPaths == <<"a.php", "b.php", "debug.log">>

Blob(c, f) ==
    CASE f = "a.php" -> (c \div 2) + 1          \* rewritten by every even commit
      [] f = "b.php" -> IF c < 3 THEN 1 ELSE 0  \* deleted by commit 3
      [] f = "debug.log" -> c                   \* rewritten by every commit

get_all_tracked_files(c) ==
    SelectSeq(RepoPaths, LAMBDA f : Blob(c, f) # 0)

\* a diff that also lists the a_path of the deleted files
get_changed_files_with_deleted(from_commit, to_commit) ==
    SelectSeq(RepoPaths, LAMBDA f : Blob(to_commit, f) # Blob(from_commit, f))

\* the diff's items with a b_path: changed or added, not deleted
get_changed_files(from_commit, to_commit) ==
    SelectSeq(RepoPaths, LAMBDA f : Blob(to_commit, f) # Blob(from_commit, f)
                                    /\ Blob(to_commit, f) # 0)

\* GitService.get_files_in_commits for one selected commit: the files it
\* changed against its first parent (all its files when it has none) that
\* exist in the current tree
get_files_in_commits(commit, head_now) ==
    SelectSeq(IF commit = 1 THEN get_all_tracked_files(commit)
              ELSE get_changed_files(commit - 1, commit),
              LAMBDA f : Blob(head_now, f) # 0)

(***************************************************************************)
(* The two persisted files.                                                *)
(***************************************************************************)
\* the default of SiteConfig.exclude_patterns, shortened to two patterns
DefaultExcludePatterns == <<"*.log", ".git/">>

NoSite == [id |-> "", last_pushed_commit |-> 0,
           last_db_pushed_at |-> 0, last_db_pulled_at |-> 0]

NewSite(i) == [id |-> i, last_pushed_commit |-> 0,
               last_db_pushed_at |-> 0, last_db_pulled_at |-> 0]

\* OperationState; status "none" stands for None
NoOp == [status |-> "none", files_count |-> 0, commit_hash |-> 0]

\* SyncState(site_id=site_id)
EmptySync == [last_push |-> NoOp, last_pull |-> NoOp]

\* ConfigService.get_site: the first record with that id, or None
get_site(sites, site_id) ==
    IF \E i \in 1..Len(sites) : sites[i].id = site_id
    THEN sites[CHOOSE i \in 1..Len(sites) :
                 sites[i].id = site_id /\ \A j \in 1..(i - 1) : sites[j].id # site_id]
    ELSE NoSite

HasSite(sites, site_id) == \E i \in 1..Len(sites) : sites[i].id = site_id

\* an update that stores the record next to the old one
ReplaceSiteKeepsOld(sites, site) == Append(sites, site)

\* ConfigService.update_site: the list with the first record of that id replaced
ReplaceSite(sites, site) ==
    LET k == CHOOSE i \in 1..Len(sites) :
                 sites[i].id = site.id /\ \A j \in 1..(i - 1) : sites[j].id # site.id
    IN  [sites EXCEPT ![k] = site]

\* ConfigService.get_sync_state on a loaded states dict
get_sync_state(states, site_id) ==
    IF site_id \in DOMAIN states THEN states[site_id] ELSE EmptySync

\* states[sync_state.site_id] = sync_state.to_dict()
PutSync(states, site_id, sync_state) ==
    [k \in (DOMAIN states) \cup {site_id} |->
        IF k = site_id THEN sync_state ELSE states[k]]

(***************************************************************************)
(* What a controller call returns: a (success, message, stats) tuple;      *)
(* kind "raised" would be an exception leaving the call.                   *)
(***************************************************************************)
NoResult == [kind |-> "none", success |-> FALSE, message |-> ""]

Return(success, message) == [kind |-> "tuple", success |-> success, message |-> message]

\* an exception that leaves the controller method
Propagate(message) == [kind |-> "raised", success |-> FALSE, message |-> message]

\* the except Exception handler that closes every controller method
OnException(message) == Return(FALSE, message)

(***************************************************************************)
(* PushController.push and push_all (the two differ in the file selection  *)
(* only).                                                                  *)
(***************************************************************************)
PushIdle ==
    [pc |-> "idle", mode |-> "push", site |-> NoSite, current_commit |-> 0,
     files |-> <<>>, idx |-> 0, files_pushed |-> 0, files_failed |-> 0,
     files_skipped |-> 0, missing |-> 0, pushed |-> <<>>, sftp |-> FALSE,
     commit_writes |-> 0, sites |-> <<>>, sync |-> EmptySync, states |-> <<>>,
     result |-> NoResult, head_at_start |-> 0]

\* files_to_push of push (lines 152-161) and of push_all (lines 276-281):
\* the diff ends at the commit read at line 149, the tracked files are those
\* of HEAD when get_all_tracked_files runs
FilesToPush(mode, site, current_commit, head_now) ==
    filter_files(IF mode = "push_from_commits"
                 THEN get_files_in_commits(head_now, head_now)
                 ELSE IF mode = "push" /\ site.last_pushed_commit # 0
                 THEN get_changed_files(site.last_pushed_commit, current_commit)
                 ELSE get_all_tracked_files(head_now),
                 cfg.exclude_patterns)

\* get_site, get_password, GitService(...), get_current_commit (lines 129-149);
\* push_from_commits (lines 375-395) does not read the commit here
PushStart(mode, hasPassword, gitOk) ==
    /\ push.pc = "idle"
    /\ runs < MaxRuns
    /\ runs' = runs + 1
    /\ LET site == get_site(sitesFile, Site)
           \* head_at_start is history: HEAD when the call was made
           p == [PushIdle EXCEPT !.mode = mode, !.site = site, !.head_at_start = head]
       IN  push' =
             IF site = NoSite
             THEN [p EXCEPT !.pc = "done", !.result = Return(FALSE, "Site not found")]
             ELSE IF ~hasPassword
             THEN [p EXCEPT !.pc = "done",
                            !.result = Return(FALSE, "Password not found in keyring")]
             ELSE IF ~gitOk
             THEN [p EXCEPT !.pc = "done", !.result = OnException("Push failed")]
             ELSE [p EXCEPT !.pc = "select",
                            !.current_commit = IF mode = "push_from_commits"
                                               THEN 0 ELSE head]
    /\ UNCHANGED <<sitesFile, syncFile, cfg, head, now, pull, db, fold,
                   localMtime, remoteMtime, dbFiles, zips, prevPull, otherVars>>

\* the file selection, the "No files to push" return, sftp.connect()
\* (lines 152-171)
PushSelectFiles(gitOk, connectOk) ==
    /\ push.pc = "select"
    /\ LET files == FilesToPush(push.mode, push.site, push.current_commit, head)
       IN  push' =
             IF ~gitOk
             THEN [push EXCEPT !.pc = "done", !.result = OnException("Push failed")]
             ELSE IF files = <<>>
             THEN [push EXCEPT !.pc = "done",
                               !.result = Return(TRUE, "No files to push")]
             ELSE IF ~connectOk
             THEN [push EXCEPT !.pc = "done", !.files = files,
                               !.result = OnException("Push failed")]
             ELSE [push EXCEPT !.pc = "loop", !.files = files, !.sftp = TRUE]
    /\ UNCHANGED <<sitesFile, syncFile, cfg, head, now, runs, pull, db, fold,
                   localMtime, remoteMtime, dbFiles, zips, prevPull, otherVars>>

\* the loop is left after the first file
PushLoopDoneEarly(p) == p.idx >= 1

\* the for loop of lines 176-205 is exhausted
PushLoopDone(p) == p.idx = Len(p.files)

PushOutcomes == {"missing", "skipped", "uploaded", "failed", "exception"}

\* one iteration of the upload loop (lines 176-205)
PushFile(outcome) ==
    /\ push.pc = "loop"
    /\ ~PushLoopDone(push)
    /\ outcome = "skipped" => (cfg.push_newer_only /\ push.mode # "push_from_commits")
    /\ push' =
         CASE outcome = "missing" ->
                [push EXCEPT !.idx = @ + 1, !.missing = @ + 1]
           [] outcome = "skipped" ->
                [push EXCEPT !.idx = @ + 1, !.files_skipped = @ + 1]
           [] outcome = "uploaded" ->
                [push EXCEPT !.idx = @ + 1, !.files_pushed = @ + 1,
                             !.pushed = Append(@, push.files[push.idx + 1])]
           [] outcome = "failed" ->
                [push EXCEPT !.idx = @ + 1, !.files_failed = @ + 1]
           [] outcome = "exception" ->
                [push EXCEPT !.pc = "done", !.result = OnException("Push failed")]
    /\ UNCHANGED <<sitesFile, syncFile, cfg, head, now, runs, pull, db, fold,
                   localMtime, remoteMtime, dbFiles, zips, prevPull, otherVars>>

\* sftp.disconnect() and the get_site of update_last_pushed_commit (lines
\* 208-211); in push_from_commits sftp.disconnect() and get_current_commit
\* (lines 440-443)
PushLoopEnd(gitOk) ==
    /\ push.pc = "loop"
    /\ PushLoopDone(push)
    /\ push.mode # "push_from_commits" => gitOk
    /\ LET site == get_site(sitesFile, Site)
       IN  push' =
             IF push.mode = "push_from_commits"
             THEN IF gitOk
                  THEN [push EXCEPT !.sftp = FALSE, !.current_commit = head,
                                    !.pc = "get_sync"]
                  ELSE [push EXCEPT !.sftp = FALSE, !.pc = "done",
                                    !.result = OnException("Push failed")]
             ELSE [push EXCEPT !.sftp = FALSE, !.site = site,
                               !.pc = IF site = NoSite THEN "get_sync"
                                      ELSE "update_site_load"]
    /\ UNCHANGED <<sitesFile, syncFile, cfg, head, now, runs, pull, db, fold,
                   localMtime, remoteMtime, dbFiles, zips, prevPull, otherVars>>

\* update_site: sites = self._load_sites(), ValueError when the id is gone
PushUpdateSiteLoad ==
    /\ push.pc = "update_site_load"
    /\ push' = IF HasSite(sitesFile, Site)
               THEN [push EXCEPT !.sites = sitesFile, !.pc = "update_site_save"]
               ELSE [push EXCEPT !.pc = "done", !.result = OnException("Push failed")]
    /\ UNCHANGED <<sitesFile, syncFile, cfg, head, now, runs, pull, db, fold,
                   localMtime, remoteMtime, dbFiles, zips, prevPull, otherVars>>

\* what CommitToRecord would be if HEAD were read again at the write
CommitToRecordReread(p) == head

\* the commit hash update_last_pushed_commit is called with (line 211)
CommitToRecord(p) == p.current_commit

\* update_site: sites[i] = site; self._save_sites(sites)
PushUpdateSiteSave ==
    /\ push.pc = "update_site_save"
    /\ sitesFile' = ReplaceSite(push.sites,
                        [push.site EXCEPT !.last_pushed_commit = CommitToRecord(push)])
    /\ push' = [push EXCEPT !.pc = "get_sync", !.commit_writes = @ + 1, !.sites = <<>>]
    /\ UNCHANGED <<syncFile, cfg, head, now, runs, pull, db, fold,
                   localMtime, remoteMtime, dbFiles, zips, prevPull, otherVars>>

\* an OperationState with the commit that is HEAD when the record is built
PushOperationStateHeadNow(p) ==
    [status |-> IF p.files_failed = 0 THEN "success" ELSE "partial",
     files_count |-> p.files_pushed,
     commit_hash |-> head]

\* OperationState of lines 214-221
PushOperationState(p) ==
    [status |-> IF p.files_failed = 0 THEN "success" ELSE "partial",
     files_count |-> p.files_pushed,
     commit_hash |-> p.current_commit]

\* sync_state = get_sync_state(site_id); sync_state.last_push = operation_state
PushGetSync ==
    /\ push.pc = "get_sync"
    /\ push' = [push EXCEPT
                  !.sync = [get_sync_state(syncFile, Site) EXCEPT
                               !.last_push = PushOperationState(push)],
                  !.pc = "update_sync_load"]
    /\ UNCHANGED <<sitesFile, syncFile, cfg, head, now, runs, pull, db, fold,
                   localMtime, remoteMtime, dbFiles, zips, prevPull, otherVars>>

\* update_sync_state: states = self._load_sync_states()
PushUpdateSyncLoad ==
    /\ push.pc = "update_sync_load"
    /\ push' = [push EXCEPT !.states = syncFile, !.pc = "update_sync_save"]
    /\ UNCHANGED <<sitesFile, syncFile, cfg, head, now, runs, pull, db, fold,
                   localMtime, remoteMtime, dbFiles, zips, prevPull, otherVars>>

\* a save that merges: the other kind's record is taken from the file as it is
\* when the save happens
SaveSyncStatesMerged(states, site_id, sync_state) ==
    PutSync(syncFile, site_id,
            [last_push |-> IF sync_state.last_push = get_sync_state(states, site_id).last_push
                           THEN get_sync_state(syncFile, site_id).last_push
                           ELSE sync_state.last_push,
             last_pull |-> IF sync_state.last_pull = get_sync_state(states, site_id).last_pull
                           THEN get_sync_state(syncFile, site_id).last_pull
                           ELSE sync_state.last_pull])

\* update_sync_state: the dict that is written back
SaveSyncStates(states, site_id, sync_state) == PutSync(states, site_id, sync_state)

\* update_sync_state: _save_sync_states(states), then return True (line 233)
PushUpdateSyncSave ==
    /\ push.pc = "update_sync_save"
    /\ syncFile' = SaveSyncStates(push.states, Site, push.sync)
    /\ push' = [push EXCEPT !.pc = "done", !.states = <<>>,
                            !.result = Return(TRUE, "Push completed")]
    /\ UNCHANGED <<sitesFile, cfg, head, now, runs, pull, db, fold,
                   localMtime, remoteMtime, dbFiles, zips, prevPull, otherVars>>

\* main_window.py update_ui: the button is enabled again
PushUpdateUi ==
    /\ push.pc = "done"
    /\ push' = PushIdle
    /\ UNCHANGED <<sitesFile, syncFile, cfg, head, now, runs, pull, db, fold,
                   localMtime, remoteMtime, dbFiles, zips, prevPull, otherVars>>

PushStep ==
    \/ \E gitOk, connectOk \in BOOLEAN : PushSelectFiles(gitOk, connectOk)
    \/ \E o \in PushOutcomes : PushFile(o)
    \/ \E gitOk \in BOOLEAN : PushLoopEnd(gitOk)
    \/ PushUpdateSiteLoad
    \/ PushUpdateSiteSave
    \/ PushGetSync
    \/ PushUpdateSyncLoad
    \/ PushUpdateSyncSave
    \/ PushUpdateUi

(***************************************************************************)
(* PullController.pull ("pull by date").                                   *)
(***************************************************************************)
RemotePaths == <<"up/1.jpg", "up/2.jpg", "up/x.log", "etc/3.jpg">>

RemoteFiles == {RemotePaths[k] : k \in 1..Len(RemotePaths)}

PullIdle ==
    [pc |-> "idle", site |-> NoSite, start_date |-> 0, end_date |-> 0,
     include_paths |-> <<>>, files |-> <<>>, idx |-> 0, files_pulled |-> 0,
     files_failed |-> 0, files_skipped |-> 0, stat_errors |-> 0, pulled |-> <<>>,
     sftp |-> FALSE, sync |-> EmptySync, states |-> <<>>, result |-> NoResult]

NoPrevPull == [valid |-> FALSE, success |-> FALSE, start_date |-> 0, end_date |-> 0,
               include_paths |-> <<>>, pulled |-> <<>>, files_failed |-> 0]

\* include_path.strip()
RECURSIVE Strip(_)
Strip(s) ==
    IF s = <<>> THEN s
    ELSE IF Head(s) = " " THEN Strip(Tail(s))
    ELSE IF s[Len(s)] = " " THEN Strip(SubSeq(s, 1, Len(s) - 1))
    ELSE s

\* the file is below the directory: its path is the directory's, "/", a rest
Under(f, dir) ==
    /\ Len(PathChars(f)) > Len(dir) + 1
    /\ SubSeq(PathChars(f), 1, Len(dir) + 1) = dir \o <<"/">>

\* SFTPService.path_exists of a directory below the site's remote path
path_exists(dir) == \E k \in 1..Len(RemotePaths) : Under(RemotePaths[k], dir)

\* SFTPService.list_files_recursive: the regular files below remote_path whose
\* mtime is in the range
list_files_recursive(remote_path, start_date, end_date) ==
    SelectSeq(RemotePaths, LAMBDA f : /\ Under(f, remote_path)
                                      /\ ~(remoteMtime[f] < start_date)
                                      /\ ~(remoteMtime[f] > end_date))

\* all_files of pull (lines 72-88): the listings of the include paths that are
\* not blank and exist, one after the other
RECURSIVE CollectFiles(_, _, _)
CollectFiles(include_paths, start_date, end_date) ==
    IF include_paths = <<>> THEN <<>>
    ELSE LET include_path == Strip(PathChars(Head(include_paths)))
             rest == CollectFiles(Tail(include_paths), start_date, end_date)
         IN  IF include_path = <<>> \/ ~path_exists(include_path) THEN rest
             ELSE list_files_recursive(include_path, start_date, end_date) \o rest

\* the (start, end) pairs the date entries are given
DateRanges == {<<0, MaxTime - 1>>, <<0, MaxTime>>, <<MaxTime, MaxTime>>}

PullStart(range, include_paths, hasPassword, connectOk) ==
    /\ pull.pc = "idle"
    /\ runs < MaxRuns
    /\ runs' = runs + 1
    /\ LET site == get_site(sitesFile, Site)
           p == [PullIdle EXCEPT !.site = site, !.start_date = range[1],
                                 !.end_date = range[2],
                                 !.include_paths = include_paths]
           all_files == CollectFiles(include_paths, range[1], range[2])
       IN  pull' =
             IF site = NoSite
             THEN [p EXCEPT !.pc = "done", !.result = Return(FALSE, "Site not found")]
             ELSE IF ~hasPassword
             THEN [p EXCEPT !.pc = "done",
                            !.result = Return(FALSE, "Password not found in keyring")]
             ELSE IF include_paths = <<>>
             THEN [p EXCEPT !.pc = "done",
                            !.result = Return(FALSE, "No include paths specified")]
             ELSE IF ~connectOk
             THEN [p EXCEPT !.pc = "done", !.result = OnException("Pull failed")]
             ELSE IF all_files = <<>>
             THEN [p EXCEPT !.pc = "done",
                            !.result = Return(TRUE, "No files found matching criteria")]
             ELSE [p EXCEPT !.pc = "loop", !.sftp = TRUE,
                            !.files = filter_files(all_files, cfg.exclude_patterns)]
    /\ UNCHANGED <<sitesFile, syncFile, cfg, head, now, push, db, fold,
                   localMtime, remoteMtime, dbFiles, zips, prevPull, otherVars>>

\* a comparison that also answers True for equal modification times
is_remote_newer_or_same(remote_mtime, local_mtime, statError) ==
    IF statError THEN TRUE
    ELSE IF remote_mtime = 0 THEN FALSE
    ELSE IF local_mtime = Absent THEN TRUE
    ELSE remote_mtime >= local_mtime

\* SFTPService.is_remote_newer (lines 288-319); statError is an exception of a stat
is_remote_newer(remote_mtime, local_mtime, statError) ==
    IF statError THEN TRUE
    ELSE IF remote_mtime = 0 THEN FALSE
    ELSE IF local_mtime = Absent THEN TRUE
    ELSE remote_mtime > local_mtime

PullLoopDone(p) == p.idx = Len(p.files)

PullOutcomes == {"downloaded", "failed", "exception"}

\* one iteration of the download loop (lines 107-135); a download that fails has
\* opened the local file for writing or not (wrote)
PullFile(outcome, statError, wrote) ==
    /\ pull.pc = "loop"
    /\ ~PullLoopDone(pull)
    /\ statError => cfg.push_newer_only
    /\ LET f == pull.files[pull.idx + 1]
           skip == /\ cfg.push_newer_only
                   /\ ~is_remote_newer(remoteMtime[f], localMtime[f], statError)
       IN  IF skip
           THEN /\ outcome = "downloaded" /\ ~wrote
                /\ pull' = [pull EXCEPT !.idx = @ + 1, !.files_skipped = @ + 1]
                /\ UNCHANGED localMtime
           ELSE CASE outcome = "downloaded" ->
                       /\ wrote
                       /\ pull' = [pull EXCEPT !.idx = @ + 1, !.files_pulled = @ + 1,
                                               !.stat_errors = IF statError THEN @ + 1 ELSE @,
                                               !.pulled = Append(@, f)]
                       /\ localMtime' = [localMtime EXCEPT ![f] = now]
                  [] outcome = "failed" ->
                       /\ pull' = [pull EXCEPT !.idx = @ + 1, !.files_failed = @ + 1,
                                               !.stat_errors = IF statError THEN @ + 1 ELSE @]
                       /\ localMtime' = IF wrote THEN [localMtime EXCEPT ![f] = now]
                                        ELSE localMtime
                  [] outcome = "exception" ->
                       /\ ~wrote /\ ~statError
                       /\ pull' = [pull EXCEPT !.pc = "done",
                                               !.result = OnException("Pull failed")]
                       /\ UNCHANGED localMtime
    /\ UNCHANGED <<sitesFile, syncFile, cfg, head, now, runs, push, db, fold,
                   remoteMtime, dbFiles, zips, prevPull, otherVars>>

\* an OperationState whose status does not look at files_failed
PullOperationStateSuccess(p) ==
    [status |-> "success", files_count |-> p.files_pulled, commit_hash |-> 0]

\* OperationState of lines 141-148
PullOperationState(p) ==
    [status |-> IF p.files_failed = 0 THEN "success" ELSE "partial",
     files_count |-> p.files_pulled,
     commit_hash |-> 0]

\* sftp.disconnect(); sync_state = get_sync_state(site_id) (lines 138-150)
PullLoopEnd ==
    /\ pull.pc = "loop"
    /\ PullLoopDone(pull)
    /\ pull' = [pull EXCEPT
                  !.sftp = FALSE,
                  !.sync = [get_sync_state(syncFile, Site) EXCEPT
                               !.last_pull = PullOperationState(pull)],
                  !.pc = "update_sync_load"]
    /\ UNCHANGED <<sitesFile, syncFile, cfg, head, now, runs, push, db, fold,
                   localMtime, remoteMtime, dbFiles, zips, prevPull, otherVars>>

PullUpdateSyncLoad ==
    /\ pull.pc = "update_sync_load"
    /\ pull' = [pull EXCEPT !.states = syncFile, !.pc = "update_sync_save"]
    /\ UNCHANGED <<sitesFile, syncFile, cfg, head, now, runs, push, db, fold,
                   localMtime, remoteMtime, dbFiles, zips, prevPull, otherVars>>

PullUpdateSyncSave ==
    /\ pull.pc = "update_sync_save"
    /\ syncFile' = SaveSyncStates(pull.states, Site, pull.sync)
    /\ pull' = [pull EXCEPT !.pc = "done", !.states = <<>>,
                            !.result = Return(TRUE, "Pull completed")]
    /\ UNCHANGED <<sitesFile, cfg, head, now, runs, push, db, fold,
                   localMtime, remoteMtime, dbFiles, zips, prevPull, otherVars>>

\* main_window.py update_ui of do_pull; prevPull keeps what the call returned
PullUpdateUi ==
    /\ pull.pc = "done"
    /\ prevPull' = [valid |-> TRUE, success |-> pull.result.success,
                    start_date |-> pull.start_date, end_date |-> pull.end_date,
                    include_paths |-> pull.include_paths,
                    pulled |-> pull.pulled, files_failed |-> pull.files_failed]
    /\ pull' = PullIdle
    /\ UNCHANGED <<sitesFile, syncFile, cfg, head, now, runs, push, db, fold,
                   localMtime, remoteMtime, dbFiles, zips, otherVars>>

PullStep ==
    \/ \E o \in PullOutcomes, e, w \in BOOLEAN : PullFile(o, e, w)
    \/ PullLoopEnd
    \/ PullUpdateSyncLoad
    \/ PullUpdateSyncSave
    \/ PullUpdateUi

(***************************************************************************)
(* DBPushController.push (dir = "push") and DBPullController.pull          *)
(* (dir = "pull").  db.log is the sequence of the steps the call has       *)
(* issued, each with its outcome.                                          *)
(***************************************************************************)
DbIdle ==
    [pc |-> "idle", dir |-> "push", site |-> NoSite, ssh |-> FALSE,
     log |-> <<>>, backup_created |-> FALSE, sites |-> <<>>, result |-> NoResult]

NoDbFiles == [local_dump |-> "absent", remote_dump |-> "absent", backup |-> "absent"]

LogEntry(step, ok) == [step |-> step, ok |-> ok, src |-> "", dst |-> ""]

\* the ISO string of datetime.now(); 0 is the empty string
Stamp(t) == t + 1

\* a finally clause that removes every file the call created
FinallyRemovesAll(files) == [files EXCEPT !.local_dump = "absent", !.backup = "absent"]

\* the finally clause: the local temp dump is removed (db_push 319-325, db_pull 227-233)
Finally(files) == [files EXCEPT !.local_dump = "absent"]

\* a return of the call; the finally clause runs on the way out
DbReturn(d, success, message) ==
    [d EXCEPT !.pc = "done", !.result = Return(success, message)]

\* a failing step after which the call goes on to its cleanup
DbFailContinues(d, entry, message) ==
    [d EXCEPT !.pc = "cleanup", !.log = Append(@, entry)]

\* a failing step's "ssh_service.disconnect(); return False, ..."
DbFail(d, entry, message) ==
    [d EXCEPT !.pc = "done", !.ssh = FALSE, !.log = Append(@, entry),
              !.result = Return(FALSE, message)]

\* an exception caught by the handler of the call: no disconnect
DbRaise(d, entry) ==
    [d EXCEPT !.pc = "done", !.log = Append(@, entry),
              !.result = OnException("Database operation failed")]

\* get_site, database_config, password, step 1 (verify WP-CLI locally)
DbStart(dir, hasPassword, ok) ==
    /\ db.pc = "idle"
    /\ runs < MaxRuns
    /\ runs' = runs + 1
    /\ LET site == get_site(sitesFile, Site)
           d == [DbIdle EXCEPT !.dir = dir, !.site = site]
       IN  db' =
             IF site = NoSite
             THEN DbReturn(d, FALSE, "Site not found")
             ELSE IF ~cfg.has_db
             THEN DbReturn(d, FALSE, "Database not configured for this site")
             ELSE IF ~hasPassword
             THEN DbReturn(d, FALSE, "SSH password not found in keyring")
             ELSE IF ~ok
             THEN [d EXCEPT !.pc = "done", !.log = <<LogEntry("verify_local", FALSE)>>,
                            !.result = Return(FALSE, "WP-CLI not available locally")]
             ELSE [d EXCEPT !.pc = "connect", !.log = <<LogEntry("verify_local", TRUE)>>]
    /\ dbFiles' = NoDbFiles
    /\ UNCHANGED <<sitesFile, syncFile, cfg, head, now, push, pull, fold,
                   localMtime, remoteMtime, zips, prevPull, otherVars>>

\* step 2: ssh_service.connect() raises ConnectionError
DbConnect(ok) ==
    /\ db.pc = "connect"
    /\ db' = IF ok
             THEN [db EXCEPT !.pc = "verify_remote", !.ssh = TRUE,
                             !.log = Append(@, LogEntry("connect", TRUE))]
             ELSE DbRaise(db, LogEntry("connect", FALSE))
    /\ dbFiles' = IF ok THEN dbFiles ELSE Finally(dbFiles)
    /\ UNCHANGED <<sitesFile, syncFile, cfg, head, now, runs, push, pull, fold,
                   localMtime, remoteMtime, zips, prevPull, otherVars>>

\* step 3: verify WP-CLI on the remote server
DbVerifyRemote(ok) ==
    /\ db.pc = "verify_remote"
    /\ db' = IF ok
             THEN [db EXCEPT !.pc = "export",
                             !.log = Append(@, LogEntry("verify_remote", TRUE))]
             ELSE DbFail(db, LogEntry("verify_remote", FALSE),
                         "WP-CLI not available on remote server")
    /\ dbFiles' = IF ok THEN dbFiles ELSE Finally(dbFiles)
    /\ UNCHANGED <<sitesFile, syncFile, cfg, head, now, runs, push, pull, fold,
                   localMtime, remoteMtime, zips, prevPull, otherVars>>

\* the prefixes differ (db_push line 178)
PrefixesDiffer == cfg.local_table_prefix # cfg.remote_table_prefix

\* step 5: wp db export of the source database into the temp dump; a failed
\* export has left a file or not (left)
DbExport(ok, left) ==
    /\ db.pc = "export"
    /\ ok => left
    /\ LET dump == IF left THEN "present" ELSE "absent"
           files == IF db.dir = "push"
                    THEN [dbFiles EXCEPT !.local_dump = dump]
                    ELSE [dbFiles EXCEPT !.remote_dump = dump]
       IN  IF ok
           THEN /\ db' = [db EXCEPT
                            !.pc = IF db.dir = "push" /\ PrefixesDiffer
                                   THEN "prefix" ELSE "transfer",
                            !.log = Append(@, LogEntry("export", TRUE))]
                /\ dbFiles' = files
           ELSE /\ db' = DbFail(db, LogEntry("export", FALSE),
                                "Failed to export database")
                /\ dbFiles' = Finally(files)
    /\ UNCHANGED <<sitesFile, syncFile, cfg, head, now, runs, push, pull, fold,
                   localMtime, remoteMtime, zips, prevPull, otherVars>>

\* step 6 of the push: replace_table_prefix_in_sql rewrites the local dump
DbPrefix(ok) ==
    /\ db.pc = "prefix"
    /\ IF ok
       THEN /\ db' = [db EXCEPT !.pc = "transfer",
                                !.log = Append(@, [step |-> "prefix", ok |-> TRUE,
                                                   src |-> cfg.local_table_prefix,
                                                   dst |-> cfg.remote_table_prefix])]
            /\ dbFiles' = [dbFiles EXCEPT !.local_dump = "modified"]
       ELSE /\ db' = DbFail(db, LogEntry("prefix", FALSE),
                            "Failed to replace table prefixes")
            /\ dbFiles' = Finally(dbFiles)
    /\ UNCHANGED <<sitesFile, syncFile, cfg, head, now, runs, push, pull, fold,
                   localMtime, remoteMtime, zips, prevPull, otherVars>>

\* step 8 of the push (upload), step 7 of the pull (download): sftp.connect()
\* raises, a failed transfer has created the destination file or not (left)
DbTransfer(connectOk, ok, left) ==
    /\ db.pc = "transfer"
    /\ ok => (connectOk /\ left)
    /\ ~connectOk => ~left
    /\ LET dump == IF left THEN "present" ELSE "absent"
           files == IF db.dir = "push"
                    THEN [dbFiles EXCEPT !.remote_dump = dump]
                    ELSE [dbFiles EXCEPT !.local_dump = dump]
       IN  IF ~connectOk
           THEN /\ db' = DbRaise(db, LogEntry("transfer", FALSE))
                /\ dbFiles' = Finally(dbFiles)
           ELSE IF ~ok
           THEN /\ db' = DbFail(db, LogEntry("transfer", FALSE),
                                "Failed to transfer database")
                /\ dbFiles' = Finally(files)
           ELSE /\ db' = [db EXCEPT
                            !.pc = IF cfg.backup_before_import
                                   THEN "backup" ELSE "import",
                            !.log = Append(@, LogEntry("transfer", TRUE))]
                /\ dbFiles' = files
    /\ UNCHANGED <<sitesFile, syncFile, cfg, head, now, runs, push, pull, fold,
                   localMtime, remoteMtime, zips, prevPull, otherVars>>

\* a backup step the failure of which ends the call
DbBackupAborts(ok) ==
    /\ db.pc = "backup"
    /\ db' = IF ok
             THEN [db EXCEPT !.pc = "import", !.backup_created = TRUE,
                             !.log = Append(@, LogEntry("backup", TRUE))]
             ELSE DbFail(db, LogEntry("backup", FALSE), "Failed to create backup")
    /\ dbFiles' = IF ok THEN [dbFiles EXCEPT !.backup = "present"] ELSE Finally(dbFiles)
    /\ UNCHANGED <<sitesFile, syncFile, cfg, head, now, runs, push, pull, fold,
                   localMtime, remoteMtime, zips, prevPull, otherVars>>

\* step 9 of the push, step 8 of the pull: export of the destination database
\* into the backup file; its failure is only logged
DbBackup(ok) ==
    /\ db.pc = "backup"
    /\ db' = [db EXCEPT !.pc = "import", !.backup_created = ok,
                        !.log = Append(@, LogEntry("backup", ok))]
    /\ dbFiles' = IF ok THEN [dbFiles EXCEPT !.backup = "present"] ELSE dbFiles
    /\ UNCHANGED <<sitesFile, syncFile, cfg, head, now, runs, push, pull, fold,
                   localMtime, remoteMtime, zips, prevPull, otherVars>>

\* what follows a successful import (db_push 268-283, db_pull 184-189)
AfterImport(d) ==
    IF d.dir = "push" /\ PrefixesDiffer THEN "options"
    ELSE IF cfg.local_url # "" /\ cfg.remote_url # "" THEN "search_replace"
    ELSE "cleanup"

\* step 10 of the push, step 9 of the pull: wp db import of the dump
DbImport(ok) ==
    /\ db.pc = "import"
    /\ IF ok
       THEN /\ db' = [db EXCEPT !.pc = AfterImport(db),
                                !.log = Append(@, LogEntry("import", TRUE))]
            /\ dbFiles' = dbFiles
       ELSE /\ db' = DbFail(db, LogEntry("import", FALSE), "Failed to import database")
            /\ dbFiles' = Finally(dbFiles)
    /\ UNCHANGED <<sitesFile, syncFile, cfg, head, now, runs, push, pull, fold,
                   localMtime, remoteMtime, zips, prevPull, otherVars>>

\* step 11 of the push: update_wp_options_prefix; its failure is only logged
DbOptions(ok) ==
    /\ db.pc = "options"
    /\ db' = [db EXCEPT
                !.pc = IF cfg.local_url # "" /\ cfg.remote_url # ""
                       THEN "search_replace" ELSE "cleanup",
                !.log = Append(@, LogEntry("options", ok))]
    /\ UNCHANGED <<sitesFile, syncFile, cfg, head, now, runs, push, pull, fold,
                   localMtime, remoteMtime, dbFiles, zips, prevPull, otherVars>>

\* search-replace always called with (local_url, remote_url)
SearchReplaceArgsLocalFirst(dir) == [src |-> cfg.local_url, dst |-> cfg.remote_url]

\* the (search, replace) arguments of wp search-replace (db_push 284-287,
\* db_pull 190-193)
SearchReplaceArgs(dir) ==
    IF dir = "push"
    THEN [src |-> cfg.local_url, dst |-> cfg.remote_url]
    ELSE [src |-> cfg.remote_url, dst |-> cfg.local_url]

\* step 12 of the push, step 10 of the pull; its failure is only logged
DbSearchReplace(ok) ==
    /\ db.pc = "search_replace"
    /\ db' = [db EXCEPT
                !.pc = "cleanup",
                !.log = Append(@, [step |-> "search_replace", ok |-> ok,
                                   src |-> SearchReplaceArgs(db.dir).src,
                                   dst |-> SearchReplaceArgs(db.dir).dst])]
    /\ UNCHANGED <<sitesFile, syncFile, cfg, head, now, runs, push, pull, fold,
                   localMtime, remoteMtime, dbFiles, zips, prevPull, otherVars>>

\* rm -f of the remote temp dump (result ignored), disconnect, the timestamp
\* (db_push 293-304, db_pull 199-212)
DbCleanup(ok) ==
    /\ db.pc = "cleanup"
    /\ db' = [db EXCEPT
                !.pc = "update_site_load", !.ssh = FALSE,
                !.log = Append(@, LogEntry("cleanup", ok)),
                !.site = IF db.dir = "push"
                         THEN [@ EXCEPT !.last_db_pushed_at = Stamp(now)]
                         ELSE [@ EXCEPT !.last_db_pulled_at = Stamp(now)]]
    /\ dbFiles' = IF ok THEN [dbFiles EXCEPT !.remote_dump = "absent"] ELSE dbFiles
    /\ UNCHANGED <<sitesFile, syncFile, cfg, head, now, runs, push, pull, fold,
                   localMtime, remoteMtime, zips, prevPull, otherVars>>

\* update_site(site): sites = self._load_sites(), ValueError when the id is gone
DbUpdateSiteLoad ==
    /\ db.pc = "update_site_load"
    /\ IF HasSite(sitesFile, Site)
       THEN /\ db' = [db EXCEPT !.sites = sitesFile, !.pc = "update_site_save"]
            /\ dbFiles' = dbFiles
       ELSE /\ db' = [db EXCEPT !.pc = "done",
                                !.result = OnException("Database operation failed")]
            /\ dbFiles' = Finally(dbFiles)
    /\ UNCHANGED <<sitesFile, syncFile, cfg, head, now, runs, push, pull, fold,
                   localMtime, remoteMtime, zips, prevPull, otherVars>>

\* update_site(site): sites[i] = site; self._save_sites(sites); return True
DbUpdateSiteSave ==
    /\ db.pc = "update_site_save"
    /\ sitesFile' = ReplaceSite(db.sites, db.site)
    /\ db' = [db EXCEPT !.pc = "done", !.sites = <<>>,
                        !.result = Return(TRUE, "Database transferred successfully")]
    /\ dbFiles' = Finally(dbFiles)
    /\ UNCHANGED <<syncFile, cfg, head, now, runs, push, pull, fold,
                   localMtime, remoteMtime, zips, prevPull, otherVars>>

\* main_window.py update_ui of do_db_push / do_db_pull; the file names carry
\* the timestamp of the call, no later call refers to them
DbUpdateUi ==
    /\ db.pc = "done"
    /\ db' = DbIdle
    /\ dbFiles' = NoDbFiles
    /\ UNCHANGED <<sitesFile, syncFile, cfg, head, now, runs, push, pull, fold,
                   localMtime, remoteMtime, zips, prevPull, otherVars>>

DbStep ==
    \/ \E ok \in BOOLEAN : DbConnect(ok)
    \/ \E ok \in BOOLEAN : DbVerifyRemote(ok)
    \/ \E ok, left \in BOOLEAN : DbExport(ok, left)
    \/ \E ok \in BOOLEAN : DbPrefix(ok)
    \/ \E c, ok, left \in BOOLEAN : DbTransfer(c, ok, left)
    \/ \E ok \in BOOLEAN : DbBackup(ok)
    \/ \E ok \in BOOLEAN : DbImport(ok)
    \/ \E ok \in BOOLEAN : DbOptions(ok)
    \/ \E ok \in BOOLEAN : DbSearchReplace(ok)
    \/ \E ok \in BOOLEAN : DbCleanup(ok)
    \/ DbUpdateSiteLoad
    \/ DbUpdateSiteSave
    \/ DbUpdateUi

(***************************************************************************)
(* PushController.push_folders (dir = "push") and                          *)
(* PullController.pull_folders (dir = "pull").  zips[i] tells where the    *)
(* temporary archive of the i-th folder of the call exists; fold.ended is  *)
(* the set of folders whose loop iteration is over.                        *)
(***************************************************************************)
FoldIdle ==
    [pc |-> "idle", dir |-> "push", n |-> 0, idx |-> 1, ended |-> {},
     folders_done |-> 0, folders_failed |-> 0, log |-> <<>>,
     sftp |-> FALSE, ssh |-> FALSE, result |-> NoResult]

NoZip == [local |-> FALSE, remote |-> FALSE]

NoZips == [i \in 1..MaxFolders |-> NoZip]

\* "continue" after a failure of the folder, or the end of the loop body
FoldAdvance(f, entry, failed) ==
    [f EXCEPT !.idx = @ + 1,
              !.ended = @ \cup {f.idx},
              !.log = Append(@, entry),
              !.folders_done = IF failed THEN @ ELSE @ + 1,
              !.folders_failed = IF failed THEN @ + 1 ELSE @,
              !.pc = IF f.idx + 1 > f.n THEN "end" ELSE "check"]

FoldEntry(i, step, ok) == [folder |-> i, step |-> step, ok |-> ok]

\* get_site, get_password, sftp.connect(), ssh.connect()
FoldStart(dir, n, hasPassword, connectOk) ==
    /\ fold.pc = "idle"
    /\ runs < MaxRuns
    /\ runs' = runs + 1
    /\ LET site == get_site(sitesFile, Site)
           f == [FoldIdle EXCEPT !.dir = dir, !.n = n]
       IN  fold' =
             IF site = NoSite
             THEN [f EXCEPT !.pc = "done", !.result = Return(FALSE, "Site not found")]
             ELSE IF ~hasPassword
             THEN [f EXCEPT !.pc = "done",
                            !.result = Return(FALSE, "Password not found in keyring")]
             ELSE IF ~connectOk
             THEN [f EXCEPT !.pc = "done", !.result = OnException("folders failed")]
             ELSE [f EXCEPT !.pc = "check", !.sftp = TRUE, !.ssh = TRUE]
    /\ zips' = NoZips
    /\ UNCHANGED <<sitesFile, syncFile, cfg, head, now, push, pull, db,
                   localMtime, remoteMtime, dbFiles, prevPull, otherVars>>

\* os.path.exists / isdir of the local folder, sftp.path_exists of the remote one
FoldCheck(exists) ==
    /\ fold.pc = "check"
    /\ fold' = IF exists
               THEN [fold EXCEPT !.pc = "compress"]
               ELSE FoldAdvance(fold, FoldEntry(fold.idx, "check", FALSE), TRUE)
    /\ UNCHANGED <<sitesFile, syncFile, cfg, head, now, runs, push, pull, db,
                   localMtime, remoteMtime, dbFiles, zips, prevPull, otherVars>>

\* push: zipfile.ZipFile(temp_zip_path, 'w'), the handler removes the archive;
\* pull: "cd remote_path && zip -r /tmp/<zip> folder", a failure only
\* continues; the failed command has left an archive or not (left)
FoldCompress(ok, left) ==
    /\ fold.pc = "compress"
    /\ ok => left
    /\ LET i == fold.idx IN
       IF ok
       THEN /\ fold' = [fold EXCEPT !.pc = "transfer",
                                    !.log = Append(@, FoldEntry(i, "compress", TRUE))]
            /\ zips' = IF fold.dir = "push"
                       THEN [zips EXCEPT ![i].local = TRUE]
                       ELSE [zips EXCEPT ![i].remote = TRUE]
       ELSE /\ fold' = FoldAdvance(fold, FoldEntry(i, "compress", FALSE), TRUE)
            /\ zips' = IF fold.dir = "push"
                       THEN [zips EXCEPT ![i].local = FALSE]
                       ELSE [zips EXCEPT ![i].remote = left]
    /\ UNCHANGED <<sitesFile, syncFile, cfg, head, now, runs, push, pull, db,
                   localMtime, remoteMtime, dbFiles, prevPull, otherVars>>

\* the result of "rm -f remote_zip_path" is ignored: the archive stays when
\* the command did not run (rmOk = FALSE)
RemoveRemoteZip(z, rmOk) == [z EXCEPT !.remote = @ /\ ~rmOk]

\* os.remove(zip path in the local temp directory)
RemoveLocalZip(z) == [z EXCEPT !.local = FALSE]

\* what the failure branch of the transfer cleans up (push_controller 618-624,
\* pull_controller 331-338)
TransferFailureCleanup(dir, z, rmOk) ==
    IF dir = "push" THEN RemoveLocalZip(z) ELSE RemoveRemoteZip(z, rmOk)

\* push: sftp.upload_file(temp_zip_path, /tmp/<zip>); pull:
\* sftp.download_file(/tmp/<zip>, local temp); a failed transfer has created
\* the destination file or not (left)
FoldTransfer(ok, left, rmOk) ==
    /\ fold.pc = "transfer"
    /\ ok => (left /\ rmOk)
    /\ LET i == fold.idx
           z == IF fold.dir = "push"
                THEN [zips[i] EXCEPT !.remote = left]
                ELSE [zips[i] EXCEPT !.local = left]
       IN  IF ok
           THEN /\ fold' = [fold EXCEPT !.pc = "extract",
                                        !.log = Append(@, FoldEntry(i, "transfer", TRUE))]
                /\ zips' = [zips EXCEPT ![i] = z]
           ELSE /\ fold' = FoldAdvance(fold, FoldEntry(i, "transfer", FALSE), TRUE)
                /\ zips' = [zips EXCEPT ![i] = TransferFailureCleanup(fold.dir, z, rmOk)]
    /\ UNCHANGED <<sitesFile, syncFile, cfg, head, now, runs, push, pull, db,
                   localMtime, remoteMtime, dbFiles, prevPull, otherVars>>

\* push: "unzip -o" on the remote; pull: ZipFile.extractall; then on either
\* outcome rm -f of the remote archive and os.remove of the local one
FoldExtract(ok, rmOk) ==
    /\ fold.pc = "extract"
    /\ LET i == fold.idx IN
       /\ fold' = FoldAdvance(fold, FoldEntry(i, "extract", ok), ~ok)
       /\ zips' = [zips EXCEPT ![i] = RemoveLocalZip(RemoveRemoteZip(zips[i], rmOk))]
    /\ UNCHANGED <<sitesFile, syncFile, cfg, head, now, runs, push, pull, db,
                   localMtime, remoteMtime, dbFiles, prevPull, otherVars>>

\* after the loop: disconnect, False only when every folder failed
FoldEnd ==
    /\ fold.pc = "end"
    /\ fold' = [fold EXCEPT
                  !.pc = "done", !.sftp = FALSE, !.ssh = FALSE,
                  !.result = IF fold.folders_done = 0 /\ fold.folders_failed > 0
                             THEN Return(FALSE, "All folders failed")
                             ELSE Return(TRUE, "folders completed")]
    /\ UNCHANGED <<sitesFile, syncFile, cfg, head, now, runs, push, pull, db,
                   localMtime, remoteMtime, dbFiles, zips, prevPull, otherVars>>

\* main_window.py update_ui of do_push_folders / do_pull_folders; the archive
\* names carry the timestamp of the call, no later call refers to them
FoldUpdateUi ==
    /\ fold.pc = "done"
    /\ fold' = FoldIdle
    /\ zips' = NoZips
    /\ UNCHANGED <<sitesFile, syncFile, cfg, head, now, runs, push, pull, db,
                   localMtime, remoteMtime, dbFiles, prevPull, otherVars>>

FoldStep ==
    \/ \E exists \in BOOLEAN : FoldCheck(exists)
    \/ \E ok, left \in BOOLEAN : FoldCompress(ok, left)
    \/ \E ok, left, rmOk \in BOOLEAN : FoldTransfer(ok, left, rmOk)
    \/ \E ok, rmOk \in BOOLEAN : FoldExtract(ok, rmOk)
    \/ FoldEnd
    \/ FoldUpdateUi

(***************************************************************************)
(* The environment: a commit made in the repository.                       *)
(***************************************************************************)
Commit ==
    /\ head < MaxCommit
    /\ head' = head + 1
    /\ UNCHANGED <<sitesFile, syncFile, cfg, now, runs, push, pull, db, fold,
                   localMtime, remoteMtime, dbFiles, zips, prevPull, otherVars>>

\* ConfigService.delete_site from the GUI: the list without the records of that id
DeleteSite ==
    /\ HasSite(sitesFile, Site)
    /\ sitesFile' = SelectSeq(sitesFile, LAMBDA r : r.id # Site)
    /\ UNCHANGED <<syncFile, cfg, head, now, runs, push, pull, db, fold,
                   localMtime, remoteMtime, dbFiles, zips, prevPull, otherVars>>

\* SiteDialog.save for an existing site: the record is built anew from the
\* entries of the dialog, SiteConfig(id=self.site.id, ...), and handed to
\* update_site.  The constructor call names neither last_pushed_commit,
\* last_db_pushed_at, last_db_pulled_at nor exclude_patterns: they take the
\* defaults of the dataclass.  settings are the entries of the dialog.
SiteDialogSave(settings) ==
    /\ HasSite(sitesFile, Site)
    /\ sitesFile' = ReplaceSite(sitesFile, NewSite(get_site(sitesFile, Site).id))
    /\ cfg' = [settings EXCEPT !.exclude_patterns = DefaultExcludePatterns]
    /\ UNCHANGED <<syncFile, head, now, runs, push, pull, db, fold,
                   localMtime, remoteMtime, dbFiles, zips, prevPull, otherVars>>

(***************************************************************************)
(* The buttons of the main window: each starts its controller call on a    *)
(* new thread.                                                             *)
(***************************************************************************)
do_push ==
    \E mode \in {"push", "push_all"}, hasPassword, gitOk \in BOOLEAN :
        PushStart(mode, hasPassword, gitOk)

\* PushController.push_from_commits, called with the HEAD commit selected
\* (no button of the main window calls it)
call_push_from_commits ==
    \E hasPassword, gitOk \in BOOLEAN :
        PushStart("push_from_commits", hasPassword, gitOk)

do_pull ==
    \E range \in DateRanges, include_paths \in {<<>>, <<"up">>},
       hasPassword, connectOk \in BOOLEAN :
        PullStart(range, include_paths, hasPassword, connectOk)

\* PullController.pull called with include paths of its caller's choice
call_pull ==
    \E range \in DateRanges,
       include_paths \in {<<"up">>, <<"etc">>, <<"up", " ">>, <<"tmp", "up">>, <<"etc", "up">>},
       hasPassword, connectOk \in BOOLEAN :
        PullStart(range, include_paths, hasPassword, connectOk)

do_db ==
    \E dir \in {"push", "pull"}, hasPassword, ok \in BOOLEAN :
        DbStart(dir, hasPassword, ok)

do_folders ==
    \E dir \in {"push", "pull"}, n \in 1..MaxFolders, hasPassword, connectOk \in BOOLEAN :
        FoldStart(dir, n, hasPassword, connectOk)

AllIdle == push.pc = "idle" /\ pull.pc = "idle" /\ db.pc = "idle" /\ fold.pc = "idle"

(***************************************************************************)
(* ConfigService: add_site, update_site, delete_site and                   *)
(* import_site_from_json.  Each call reads the whole site list, changes    *)
(* its copy and writes the whole list back; a call is a process of the     *)
(* thread that makes it, one step per access to the file.                  *)
(***************************************************************************)
MaxOps == 3         \* ConfigService calls per behaviour

Threads == {"gui", "worker"}

\* the ids uuid.uuid4().hex[:8] and the site dialog can produce
IdPool == {Site, Other, "s3"}

\* an export file: its export_type, its 'site' entry (NoSite: none), whether it
\* holds an ssh_password, whether it is JSON at all
NoEnvelope == [json |-> FALSE, export_type |-> "", site |-> NoSite, ssh_password |-> FALSE]

Envelopes ==
    LET exported == [id |-> Site, last_pushed_commit |-> 2,
                     last_db_pushed_at |-> 1, last_db_pulled_at |-> 1]
    IN  { [json |-> TRUE, export_type |-> "wp-deploy-site", site |-> exported,
           ssh_password |-> TRUE],
          [json |-> TRUE, export_type |-> "wp-deploy-site", site |-> exported,
           ssh_password |-> FALSE],
          [json |-> TRUE, export_type |-> "other", site |-> exported,
           ssh_password |-> TRUE],
          [json |-> TRUE, export_type |-> "wp-deploy-site", site |-> NoSite,
           ssh_password |-> TRUE],
          NoEnvelope }

\* the envelope passes the checks of lines 265-273
ValidEnvelope(env) ==
    env.json /\ env.export_type = "wp-deploy-site" /\ env.site # NoSite

CfgIdle ==
    [pc |-> "idle", op |-> "none", site |-> NoSite, env |-> NoEnvelope,
     sites |-> <<>>, result |-> "none"]

\* a check that never finds the id
IdNeverTaken(sites, site_id) == FALSE

\* add_site: any(s.id == site.id for s in sites)
IdTaken(sites, site_id) == \E i \in 1..Len(sites) : sites[i].id = site_id

\* the start of a call on thread t
CfgBegin(t) ==
    /\ cops[t].pc = "idle"
    /\ runs < MaxOps
    /\ runs' = runs + 1

\* add_site(site, password): sites = self._load_sites() and the check of the id
CfgAddLoad(t, site) ==
    /\ CfgBegin(t)
    /\ cops' = [cops EXCEPT ![t] =
                  IF IdTaken(sitesFile, site.id)
                  THEN [CfgIdle EXCEPT !.pc = "done", !.op = "add", !.site = site,
                                       !.result = "ValueError"]
                  ELSE [CfgIdle EXCEPT !.pc = "add_save", !.op = "add", !.site = site,
                                       !.sites = sitesFile]]
    /\ UNCHANGED <<sitesFile, keyring, controllerVars>>

\* add_site: sites.append(site); self._save_sites(sites); in a call of its own
\* the password is stored, in import_site_from_json the credentials follow
CfgAddSave(t) ==
    /\ cops[t].pc = "add_save"
    /\ sitesFile' = Append(cops[t].sites, cops[t].site)
    /\ IF cops[t].op = "import"
       THEN /\ cops' = [cops EXCEPT ![t].pc = "credentials", ![t].sites = <<>>]
            /\ UNCHANGED keyring
       ELSE /\ cops' = [cops EXCEPT ![t].pc = "done", ![t].sites = <<>>,
                                    ![t].result = "site"]
            /\ keyring' = keyring \cup {cops[t].site.id}
    /\ UNCHANGED <<runs, controllerVars>>

\* update_site(site): sites = self._load_sites()
CfgUpdateLoad(t, site) ==
    /\ CfgBegin(t)
    /\ cops' = [cops EXCEPT ![t] =
                  IF HasSite(sitesFile, site.id)
                  THEN [CfgIdle EXCEPT !.pc = "update_save", !.op = "update",
                                       !.site = site, !.sites = sitesFile]
                  ELSE [CfgIdle EXCEPT !.pc = "done", !.op = "update", !.site = site,
                                       !.result = "ValueError"]]
    /\ UNCHANGED <<sitesFile, keyring, controllerVars>>

\* update_site: sites[i] = site; self._save_sites(sites)
CfgUpdateSave(t) ==
    /\ cops[t].pc = "update_save"
    /\ sitesFile' = ReplaceSite(cops[t].sites, cops[t].site)
    /\ cops' = [cops EXCEPT ![t].pc = "done", ![t].sites = <<>>, ![t].result = "site"]
    /\ UNCHANGED <<runs, keyring, controllerVars>>

\* delete_site(site_id): sites = self._load_sites()
CfgDeleteLoad(t, site_id) ==
    /\ CfgBegin(t)
    /\ cops' = [cops EXCEPT ![t] =
                  [CfgIdle EXCEPT !.pc = "delete_save", !.op = "delete",
                                  !.site = NewSite(site_id), !.sites = sitesFile]]
    /\ UNCHANGED <<sitesFile, keyring, controllerVars>>

\* delete_site: the list without the records of that id is saved, the
\* passwords are removed from the keyring
CfgDeleteSave(t) ==
    /\ cops[t].pc = "delete_save"
    /\ sitesFile' = SelectSeq(cops[t].sites, LAMBDA r : r.id # cops[t].site.id)
    /\ keyring' = keyring \ {cops[t].site.id}
    /\ cops' = [cops EXCEPT ![t].pc = "done", ![t].sites = <<>>, ![t].result = "None"]
    /\ UNCHANGED <<runs, controllerVars>>

\* site_data of import_site_from_json after lines 278-289: the new id, the
\* sync tracking fields emptied
ImportedSite(env, new_id) ==
    [env.site EXCEPT !.id = new_id, !.last_pushed_commit = 0,
                     !.last_db_pushed_at = 0, !.last_db_pulled_at = 0]

\* import_site_from_json(file_path) up to the check of add_site: the file is
\* read and validated, new_id is what uuid4 gives, add_site loads the list
CfgImportLoad(t, env, new_id) ==
    /\ CfgBegin(t)
    /\ cops' = [cops EXCEPT ![t] =
                  IF ~ValidEnvelope(env)
                  THEN [CfgIdle EXCEPT !.pc = "done", !.op = "import", !.env = env,
                                       !.result = "None"]
                  ELSE IF IdTaken(sitesFile, new_id)
                  THEN [CfgIdle EXCEPT !.pc = "done", !.op = "import", !.env = env,
                                       !.site = ImportedSite(env, new_id),
                                       !.sites = sitesFile,
                                       !.result = "None"]
                  ELSE [CfgIdle EXCEPT !.pc = "add_save", !.op = "import", !.env = env,
                                       !.site = ImportedSite(env, new_id),
                                       !.sites = sitesFile]]
    /\ UNCHANGED <<sitesFile, keyring, controllerVars>>

\* import_site_from_json, lines 297-308: the credentials are stored under the
\* new id; an exception of the keyring is caught by the handler of line 313,
\* which returns None
CfgImportCredentials(t, keyringOk) ==
    /\ cops[t].pc = "credentials"
    /\ ~cops[t].env.ssh_password => keyringOk
    /\ keyring' = IF cops[t].env.ssh_password /\ keyringOk
                  THEN keyring \cup {cops[t].site.id} ELSE keyring
    /\ cops' = [cops EXCEPT ![t].pc = "done",
                            ![t].result = IF keyringOk THEN "site" ELSE "None"]
    /\ UNCHANGED <<sitesFile, runs, controllerVars>>

\* the call has returned to its caller
CfgReturn(t) ==
    /\ cops[t].pc = "done"
    /\ cops' = [cops EXCEPT ![t] = CfgIdle]
    /\ UNCHANGED <<sitesFile, runs, keyring, controllerVars>>

CfgStep ==
    \E t \in Threads :
        \/ \E i \in IdPool : CfgAddLoad(t, NewSite(i))
        \/ CfgAddSave(t)
        \/ \E i \in IdPool : CfgUpdateLoad(t, [NewSite(i) EXCEPT !.last_pushed_commit = 1])
        \/ CfgUpdateSave(t)
        \/ \E i \in IdPool : CfgDeleteLoad(t, i)
        \/ CfgDeleteSave(t)
        \/ \E env \in Envelopes, new_id \in IdPool : CfgImportLoad(t, env, new_id)
        \/ \E keyringOk \in BOOLEAN : CfgImportCredentials(t, keyringOk)
        \/ CfgReturn(t)

(***************************************************************************)
(* ui/main_window.py: a button handler runs on the GUI thread, starts a    *)
(* daemon thread for the operation and returns; root.after(0, f) queues f  *)
(* for the GUI thread's main loop.  mutations records which thread has     *)
(* configured which widget.                                                *)
(***************************************************************************)
MaxReports == 2     \* progress reports of one operation

\* the handlers that hand a progress_callback to the controller
CallbackOps == {"do_push", "do_push_all", "do_pull", "do_pull_folders", "do_push_folders"}

\* the handlers whose thread calls the controller without a callback
SilentOps == {"do_db_push", "do_db_pull"}

\* the handlers whose thread runs two controller calls behind a ProgressDialog
EntireSiteOps == {"do_push_entire_site", "do_pull_entire_site"}

GuiOps == CallbackOps \cup SilentOps \cup EntireSiteOps \cup {"test_connection"}

\* the label a progress report of the operation writes
StatusWidget(op) ==
    IF op \in {"do_push", "do_push_all", "do_push_folders"} THEN "push_status"
    ELSE IF op \in {"do_pull", "do_pull_folders"} THEN "pull_status"
    ELSE "progress.label"

GuiIdle == [op |-> "none", pc |-> "idle", reports |-> 0, queue |-> <<>>,
            mutations |-> {}]

NoCalc == [fn |-> "none", args |-> <<>>, done |-> FALSE, result |-> <<>>]

Mutation(widget, by) == [widget |-> widget, by |-> by]

\* the handler up to Thread(target=..., daemon=True).start(): the buttons are
\* disabled and the status label set on the GUI thread
StartThread(op) ==
    /\ gui.pc = "idle"
    /\ gui.queue = <<>>
    /\ gui' = [gui EXCEPT !.op = op, !.pc = "thread", !.reports = 0,
                          !.mutations = @ \cup {Mutation("button", "gui")}]
    /\ UNCHANGED <<stores, win, calc>>

\* progress_callback of push_thread, push_all_thread, pull_thread (lines 733-735,
\* 788-790, 861-863, 942-944, 1030-1032) and update_progress of test_thread
\* (1263-1264): root.after(0, lambda: ...config(text=...))
progress_callback ==
    /\ gui.pc = "thread"
    /\ gui.op \in CallbackOps \cup {"test_connection"}
    /\ gui.reports < MaxReports
    /\ gui' = [gui EXCEPT !.reports = @ + 1,
                          !.queue = Append(@, StatusWidget(gui.op))]
    /\ UNCHANGED <<stores, win, calc>>

\* progress.update_message(...) called by push_entire_site_thread (lines 1351,
\* 1364) and pull_entire_site_thread (1482, 1495): label.config and
\* dialog.update() run in the calling thread (lines 53-56)
update_message ==
    /\ gui.pc = "thread"
    /\ gui.op \in EntireSiteOps
    /\ gui.reports < 2
    /\ gui' = [gui EXCEPT !.reports = @ + 1,
                          !.mutations = @ \cup {Mutation("progress.label", "thread")}]
    /\ UNCHANGED <<stores, win, calc>>

\* the end of the thread function: self.root.after(0, update_ui); in an
\* entire-site thread the first update_message comes before anything that
\* can fail
ThreadEnd ==
    /\ gui.pc = "thread"
    /\ gui.op \in EntireSiteOps => gui.reports >= 1
    /\ gui' = [gui EXCEPT !.pc = "ended", !.queue = Append(@, "update_ui")]
    /\ UNCHANGED <<stores, win, calc>>

\* the main loop of the GUI thread runs the callback queued first; update_ui
\* enables the buttons again
mainloop ==
    /\ gui.queue # <<>>
    /\ LET f == Head(gui.queue)
       IN  gui' = IF f = "update_ui"
                  THEN [gui EXCEPT !.queue = Tail(@), !.op = "none", !.pc = "idle",
                                   !.reports = 0,
                                   !.mutations = @ \cup {Mutation("button", "gui")}]
                  ELSE [gui EXCEPT !.queue = Tail(@),
                                   !.mutations = @ \cup {Mutation(f, "gui")}]
    /\ UNCHANGED <<stores, win, calc>>

(***************************************************************************)
(* The buttons of the Push and Pull tabs.  A handler disables its buttons, *)
(* starts a daemon thread and returns; the thread calls the controller and *)
(* queues update_ui with root.after(0, ...); update_ui enables the buttons *)
(* again.  Several threads can be running.  The database and entire-site   *)
(* handlers open a ProgressDialog, a Toplevel the user can close.          *)
(***************************************************************************)
MaxThreads == 2     \* threads started per behaviour

Buttons == {"push_files_button", "db_push_button", "push_entire_site_button",
            "pull_files_button", "db_pull_button", "pull_entire_site_button"}

\* do_push stands for do_push, do_push_all and do_push_folders, do_pull for
\* do_pull and do_pull_folders: the same button, the same update_ui
ButtonOps == {"do_push", "do_pull", "do_db_push", "do_db_pull",
              "do_push_entire_site", "do_pull_entire_site"}

\* the button (for the files handlers: the button of the menu) that calls it
ButtonOf(op) ==
    CASE op = "do_push" -> "push_files_button"
      [] op = "do_pull" -> "pull_files_button"
      [] op = "do_db_push" -> "db_push_button"
      [] op = "do_db_pull" -> "db_pull_button"
      [] op = "do_push_entire_site" -> "push_entire_site_button"
      [] op = "do_pull_entire_site" -> "pull_entire_site_button"

\* the buttons the handler disables and its update_ui enables
Disables(op) ==
    CASE op = "do_push" -> {"push_files_button"}
      [] op = "do_pull" -> {"pull_files_button"}
      [] op = "do_db_push" -> {"db_push_button"}
      [] op = "do_db_pull" -> {"db_pull_button"}
      [] op = "do_push_entire_site" ->
            {"push_files_button", "db_push_button", "push_entire_site_button"}
      [] op = "do_pull_entire_site" ->
            {"pull_files_button", "db_pull_button", "pull_entire_site_button"}

\* the handlers that open a ProgressDialog
HasProgressDialog(op) == op \in SilentOps \cup EntireSiteOps

\* folders = ['wp-content/themes/', 'wp-content/plugins/', 'wp-content/uploads/']
ContentFolders == {"wp-content/themes/", "wp-content/plugins/", "wp-content/uploads/"}

NoThread == [op |-> "none", pc |-> "none", dialog |-> "none",
             db_success |-> FALSE, folders_success |-> FALSE,
             transferred |-> {}, shown |-> "none"]

WinIdle == [button |-> [b \in Buttons |-> "normal"],
            thread |-> [k \in 1..MaxThreads |-> NoThread],
            queue |-> <<>>]

\* the return value of push_folders / pull_folders for the folders handed
\* over: False when an exception was caught or every folder failed
folders_success(transferred, exception) ==
    IF exception THEN FALSE
    ELSE ~(Cardinality(transferred) = 0
           /\ Cardinality(ContentFolders \ transferred) > 0)

\* a click on an enabled button, the confirmation answered yes: the buttons
\* are disabled, the dialog opened, the thread started
ButtonClick(op) ==
    /\ win.button[ButtonOf(op)] = "normal"
    /\ \E k \in 1..MaxThreads :
          /\ win.thread[k].pc = "none"
          /\ \A j \in 1..(k - 1) : win.thread[j].pc # "none"
          /\ win' = [win EXCEPT
                       !.button = [b \in Buttons |->
                                     IF b \in Disables(op) THEN "disabled" ELSE @[b]],
                       !.thread[k] =
                           [NoThread EXCEPT
                              !.op = op,
                              !.pc = IF op \in EntireSiteOps THEN "database" ELSE "call",
                              !.dialog = IF HasProgressDialog(op) THEN "open" ELSE "none"]]
    /\ UNCHANGED <<stores, widgets>>

\* the user closes the window of the ProgressDialog: no handler is set for
\* WM_DELETE_WINDOW, the Toplevel and its widgets are destroyed
CloseProgressWindow(k) ==
    /\ win.thread[k].dialog = "open"
    /\ win.thread[k].pc # "done"
    /\ win' = [win EXCEPT !.thread[k].dialog = "destroyed"]
    /\ UNCHANGED <<stores, widgets>>

\* push_thread, pull_thread, db_push_thread, db_pull_thread: the controller
\* call returns (success, message, stats)
ControllerCall(k, success) ==
    /\ win.thread[k].pc = "call"
    /\ win' = [win EXCEPT !.thread[k].pc = "returned",
                          !.thread[k].db_success = success]
    /\ UNCHANGED <<stores, widgets>>

\* step 1 of an entire-site thread: progress.update_message, which raises
\* when the dialog was destroyed, then the database push (pull); "if not
\* db_success: raise", caught by the handler of the thread
EntireSiteDatabase(k, success) ==
    /\ win.thread[k].pc = "database"
    /\ win' = IF win.thread[k].dialog = "destroyed"
              THEN [win EXCEPT !.thread[k].pc = "returned"]
              ELSE [win EXCEPT !.thread[k].db_success = success,
                               !.thread[k].pc = IF success THEN "folders" ELSE "returned"]
    /\ UNCHANGED <<stores, widgets>>

\* step 2 of an entire-site thread: progress.update_message, then push_folders
\* (pull_folders) of the three content folders; transferred are the folders
\* that were transferred, exception an exception caught inside the controller
EntireSiteFolders(k, transferred, exception) ==
    /\ win.thread[k].pc = "folders"
    /\ win' = IF win.thread[k].dialog = "destroyed"
              THEN [win EXCEPT !.thread[k].pc = "returned"]
              ELSE [win EXCEPT
                      !.thread[k].transferred = transferred,
                      !.thread[k].folders_success = folders_success(transferred, exception),
                      !.thread[k].pc = "returned"]
    /\ UNCHANGED <<stores, widgets>>

\* the last statement of the thread: self.root.after(0, update_ui)
after_update_ui(k) ==
    /\ win.thread[k].pc = "returned"
    /\ win' = [win EXCEPT !.thread[k].pc = "queued", !.queue = Append(@, k)]
    /\ UNCHANGED <<stores, widgets>>

\* the success the update_ui of the thread tests
OverallSuccess(t) ==
    IF t.op \in EntireSiteOps THEN t.db_success /\ t.folders_success
    ELSE t.db_success

\* the main loop runs the update_ui queued first: progress.close(), the
\* buttons back to NORMAL, the message box.  progress.close() calls
\* self.progress.stop(), which raises TclError when the dialog was destroyed:
\* the callback ends there
update_ui ==
    /\ win.queue # <<>>
    /\ LET k == Head(win.queue)
           t == win.thread[k]
       IN  win' = IF t.dialog = "destroyed"
                  THEN [win EXCEPT !.queue = Tail(@), !.thread[k].pc = "done"]
                  ELSE [win EXCEPT
                          !.queue = Tail(@),
                          !.thread[k].pc = "done",
                          !.thread[k].dialog = "none",
                          !.thread[k].shown = IF OverallSuccess(t) THEN "success"
                                              ELSE "error",
                          !.button = [b \in Buttons |->
                                        IF b \in Disables(t.op) THEN "normal" ELSE @[b]]]
    /\ UNCHANGED <<stores, widgets>>

\* a step of a worker thread
ThreadStep(k) ==
    \/ \E success \in BOOLEAN : ControllerCall(k, success)
    \/ \E success \in BOOLEAN : EntireSiteDatabase(k, success)
    \/ \E transferred \in SUBSET ContentFolders, exception \in BOOLEAN :
          EntireSiteFolders(k, transferred, exception)
    \/ after_update_ui(k)

(***************************************************************************)
(* DatabaseService.replace_table_prefix_in_sql: the dump is a string, the  *)
(* seven patterns are substituted one after the other with re.subn.        *)
(***************************************************************************)
\* the backtick character
Backtick == "backtick"

SqlChars(s) ==
    CASE s = "CREATE TABLE " -> <<"C", "R", "E", "A", "T", "E", " ", "T", "A", "B", "L", "E", " ">>
      [] s = "DROP TABLE IF EXISTS " -> <<"D", "R", "O", "P", " ", "T", "A", "B", "L", "E", " ", "I", "F", " ", "E", "X", "I", "S", "T", "S", " ">>
      [] s = "INSERT INTO " -> <<"I", "N", "S", "E", "R", "T", " ", "I", "N", "T", "O", " ">>
      [] s = "LOCK TABLES " -> <<"L", "O", "C", "K", " ", "T", "A", "B", "L", "E", "S", " ">>
      [] s = "UNLOCK TABLES " -> <<"U", "N", "L", "O", "C", "K", " ", "T", "A", "B", "L", "E", "S", " ">>
      [] s = "ALTER TABLE " -> <<"A", "L", "T", "E", "R", " ", "T", "A", "B", "L", "E", " ">>
      [] s = "REFERENCES " -> <<"R", "E", "F", "E", "R", "E", "N", "C", "E", "S", " ">>
      [] s = "SELECT * FROM " -> <<"S", "E", "L", "E", "C", "T", " ", "*", " ", "F", "R", "O", "M", " ">>
      [] s = "create table " -> <<"c", "r", "e", "a", "t", "e", " ", "t", "a", "b", "l", "e", " ">>
      [] s = Backtick -> <<Backtick>>
      [] s = "\"" -> <<"\"">>
      [] s = "" -> <<>>
      [] s = "wp_" -> <<"w", "p", "_">>
      [] s = "wp2_" -> <<"w", "p", "2", "_">>
      [] s = "wp_x_" -> <<"w", "p", "_", "x", "_">>
      [] s = "wp_a" -> <<"w", "p", "_", "a">>
      [] s = "wp_b" -> <<"w", "p", "_", "b">>
      [] s = "xwp_a" -> <<"x", "w", "p", "_", "a">>
      [] s = "wp2_a" -> <<"w", "p", "2", "_", "a">>
      [] s = "wp2_b" -> <<"w", "p", "2", "_", "b">>
      [] s = "wp_x_a" -> <<"w", "p", "_", "x", "_", "a">>
      [] s = "wp_x_b" -> <<"w", "p", "_", "x", "_", "b">>
      [] s = " (" -> <<" ", "(">>
      [] s = ");" -> <<")", ";">>
      [] s = " VALUES ('wp_x');" -> <<" ", "V", "A", "L", "U", "E", "S", " ", "(", "'", "w", "p", "_", "x", "'", ")", ";">>
      [] s = " WRITE;" -> <<" ", "W", "R", "I", "T", "E", ";">>
      [] s = ";" -> <<";">>

\* the keyword, with its space, of each pattern, in the order of the list
\* of lines 650-665
patterns == <<"CREATE TABLE ", "DROP TABLE IF EXISTS ", "INSERT INTO ", "LOCK TABLES ",
              "UNLOCK TABLES ", "ALTER TABLE ", "REFERENCES ">>

Quotes == {Backtick, "\""}

\* the pattern  keyword, backtick or double quote, old_prefix  matches
\* content at position i
MatchesAt(content, i, kw, old) ==
    /\ Len(content) >= i + Len(kw) + Len(old)
    /\ SubSeq(content, i, i + Len(kw) - 1) = kw
    /\ content[i + Len(kw)] \in Quotes
    /\ SubSeq(content, i + Len(kw) + 1, i + Len(kw) + Len(old)) = old

\* re.subn from position from on: the next match is the leftmost one that
\* starts at or after from, the scan goes on behind it
RECURSIVE SubFrom(_, _, _, _, _)
SubFrom(content, from, kw, old, new) ==
    LET starts == {i \in from..Len(content) : MatchesAt(content, i, kw, old)}
    IN  IF starts = {} THEN SubSeq(content, from, Len(content))
        ELSE LET i == CHOOSE m \in starts : \A k \in starts : m <= k
             IN  SubSeq(content, from, i - 1)
                    \o kw \o <<content[i + Len(kw)]>> \o new
                    \o SubFrom(content, i + Len(kw) + 1 + Len(old), kw, old, new)

\* re.subn(pattern, replacement, content): the matches are found from left
\* to right without overlap, the replacement is keyword \1 new_prefix
subn(content, kw, old, new) == SubFrom(content, 1, kw, old, new)

\* the for loop of lines 668-670 over the first k patterns
RECURSIVE SubstituteAll(_, _, _, _)
SubstituteAll(content, k, old, new) ==
    IF k = 0 THEN content
    ELSE subn(SubstituteAll(content, k - 1, old, new), SqlChars(patterns[k]), old, new)

\* the content of the file after the call (lines 637-674)
replace_table_prefix_in_sql(content, old_prefix, new_prefix) ==
    IF old_prefix = new_prefix THEN content
    ELSE SubstituteAll(content, Len(patterns), SqlChars(old_prefix), SqlChars(new_prefix))

(***************************************************************************)
(* DatabaseConfig.normalize_url, on the characters of the URL.             *)
(***************************************************************************)
\* the line feed character
Newline == "newline"

\* the characters str.strip() removes
Whitespace == {" ", Newline}

\* url.strip()
RECURSIVE strip(_)
strip(url) ==
    IF url = <<>> THEN url
    ELSE IF Head(url) \in Whitespace THEN strip(Tail(url))
    ELSE IF url[Len(url)] \in Whitespace THEN strip(SubSeq(url, 1, Len(url) - 1))
    ELSE url

\* a removal of one final slash only
rstrip_once(url) ==
    IF url # <<>> /\ url[Len(url)] = "/" THEN SubSeq(url, 1, Len(url) - 1) ELSE url

\* url.rstrip('/')
RECURSIVE rstrip(_)
rstrip(url) ==
    IF url # <<>> /\ url[Len(url)] = "/" THEN rstrip(SubSeq(url, 1, Len(url) - 1))
    ELSE url

startswith(url, prefix) ==
    Len(url) >= Len(prefix) /\ SubSeq(url, 1, Len(prefix)) = prefix

Http == <<"h", "t", "t", "p", ":">>

Https == <<"h", "t", "t", "p", "s", ":">>

\* lines 67-70: the first 'https:/' or 'http:/' becomes the scheme with two
\* slashes when the URL starts with the single-slash form only
FixScheme(url) ==
    IF startswith(url, Https \o <<"/">>) /\ ~startswith(url, Https \o <<"/", "/">>)
    THEN Https \o <<"/", "/">> \o SubSeq(url, Len(Https) + 2, Len(url))
    ELSE IF startswith(url, Http \o <<"/">>) /\ ~startswith(url, Http \o <<"/", "/">>)
    THEN Http \o <<"/", "/">> \o SubSeq(url, Len(Http) + 2, Len(url))
    ELSE url

\* re.match(r'^https?://.+', url): the dot matches any character but a line
\* feed
re_match(url) ==
    \E scheme \in {Http \o <<"/", "/">>, Https \o <<"/", "/">>} :
        /\ startswith(url, scheme)
        /\ Len(url) > Len(scheme)
        /\ url[Len(scheme) + 1] # Newline

normalize_url(url) ==
    IF url = <<>> THEN <<>>
    ELSE LET fixed == FixScheme(rstrip(strip(url)))
         IN  IF ~re_match(fixed) THEN <<>> ELSE fixed

(***************************************************************************)
(* Settings of the selected site.                                          *)
(***************************************************************************)
FullCfg ==
    [push_newer_only |-> TRUE, exclude_patterns |-> DefaultExcludePatterns,
     has_db |-> TRUE, backup_before_import |-> TRUE,
     local_table_prefix |-> "wp_", remote_table_prefix |-> "wpx_",
     local_url |-> "http://l", remote_url |-> "https://r"]

Cfgs ==
    { FullCfg,
      [FullCfg EXCEPT !.backup_before_import = FALSE, !.remote_table_prefix = "wp_"],
      [FullCfg EXCEPT !.local_url = "", !.push_newer_only = FALSE],
      [FullCfg EXCEPT !.remote_url = "", !.has_db = FALSE] }

InitWorkers ==
    /\ push = PushIdle
    /\ pull = PullIdle
    /\ db = DbIdle
    /\ fold = FoldIdle
    /\ runs = 0
    /\ dbFiles = NoDbFiles
    /\ zips = NoZips
    /\ prevPull = NoPrevPull
    /\ cops = [t \in Threads |-> CfgIdle]
    /\ keyring = {}
    /\ gui = GuiIdle
    /\ win = WinIdle

InitFiles ==
    /\ sitesFile = <<NewSite(Other), [NewSite(Site) EXCEPT !.last_pushed_commit = 1]>>
    /\ syncFile = [k \in {Other} |-> EmptySync]
    /\ head = 2
    /\ localMtime = [f \in RemoteFiles |-> Absent]
    /\ remoteMtime = [f \in RemoteFiles |-> IF f = "up/2.jpg" THEN MaxTime ELSE 1]

(***************************************************************************)
(* Spec: the operations of one site started in any order with no mutual    *)
(* exclusion (file push, file pull, database push / pull), as the GUI      *)
(* allows.                                                                 *)
(***************************************************************************)
Init ==
    /\ InitWorkers
    /\ calc = NoCalc
    /\ InitFiles
    /\ cfg = FullCfg
    /\ now = 1

Next ==
    \/ do_push
    \/ PushStep
    \/ do_pull
    \/ PullStep
    \/ do_db
    \/ DbStep
    \/ Commit

Spec == Init /\ [][Next]_vars

(***************************************************************************)
(* SpecSeq: one operation at a time (the user waits for the result dialog  *)
(* before the next click), every operation and every setting.              *)
(***************************************************************************)
InitSeq ==
    /\ InitWorkers
    /\ calc = NoCalc
    /\ InitFiles
    /\ cfg \in Cfgs
    /\ now = 1

NextSeq ==
    \/ AllIdle /\ do_push
    \/ AllIdle /\ call_push_from_commits
    \/ PushStep
    \/ AllIdle /\ do_pull
    \/ PullStep
    \/ AllIdle /\ do_db
    \/ DbStep
    \/ AllIdle /\ do_folders
    \/ FoldStep
    \/ AllIdle /\ DeleteSite
    \/ AllIdle /\ Commit

SpecSeq == InitSeq /\ [][NextSeq]_vars

(***************************************************************************)
(* SpecSync: one file push or file pull at a time, with sync states stored *)
(* for this and another site, while commits are made in the repository at  *)
(* any time.                                                               *)
(***************************************************************************)
StoredOp == [status |-> "success", files_count |-> 1, commit_hash |-> 1]

StoredSync == [last_push |-> StoredOp, last_pull |-> [StoredOp EXCEPT !.commit_hash = 0]]

InitSync ==
    /\ InitWorkers
    /\ calc = NoCalc
    /\ sitesFile = <<NewSite(Other), [NewSite(Site) EXCEPT !.last_pushed_commit = 1]>>
    /\ syncFile \in {[k \in {Other} |-> StoredSync],
                      [k \in {Other, Site} |-> StoredSync],
                      [k \in {Other, Site} |->
                          IF k = Site THEN [StoredSync EXCEPT !.last_pull = NoOp]
                          ELSE StoredSync]}
    /\ head = 2
    /\ localMtime = [f \in RemoteFiles |-> Absent]
    /\ remoteMtime = [f \in RemoteFiles |-> IF f = "up/2.jpg" THEN MaxTime ELSE 1]
    /\ cfg = FullCfg
    /\ now = 1

NextSync ==
    \/ AllIdle /\ do_push
    \/ AllIdle /\ call_push_from_commits
    \/ PushStep
    \/ AllIdle /\ do_pull
    \/ PullStep
    \/ Commit

SpecSync == InitSync /\ [][NextSync]_vars

(***************************************************************************)
(* SpecGui: the buttons of the main window, one operation at a time.       *)
(***************************************************************************)
InitGui ==
    /\ InitWorkers
    /\ calc = NoCalc
    /\ InitFiles
    /\ cfg = FullCfg
    /\ now = 1

NextGui ==
    \/ \E op \in GuiOps : StartThread(op)
    \/ progress_callback
    \/ update_message
    \/ ThreadEnd
    \/ mainloop

SpecGui == InitGui /\ [][NextGui]_vars

(***************************************************************************)
(* SpecFilter: filter_files called with lists of up to MaxLen paths and    *)
(* patterns, written with either separator.                                *)
(***************************************************************************)
MaxLen == 2

FilterPaths == {"up/1.jpg", "up/x.log", "up\\x.log", "up/cache", "cache/a.php",
                "cache\\a.php", "debug.log"}

FilterPatterns == {"*.log", "cache/", "cache\\", "up/*", "up\\*", ".git/"}

SeqsUpTo(S, n) == UNION {[1..k -> S] : k \in 0..n}

InitFilter ==
    /\ InitWorkers
    /\ InitFiles
    /\ cfg = FullCfg
    /\ now = 1
    /\ \E files \in SeqsUpTo(FilterPaths, MaxLen),
          exclude_patterns \in SeqsUpTo(FilterPatterns, MaxLen) :
          calc = [NoCalc EXCEPT !.fn = "filter_files",
                                !.args = <<files, exclude_patterns>>]

call_filter_files ==
    /\ calc.fn = "filter_files" /\ ~calc.done
    /\ calc' = [calc EXCEPT !.done = TRUE,
                            !.result = filter_files(calc.args[1], calc.args[2])]
    /\ UNCHANGED <<stores, win, gui>>

NextFilter == call_filter_files

SpecFilter == InitFilter /\ [][NextFilter]_vars

(***************************************************************************)
(* SpecPrefix: replace_table_prefix_in_sql called on dumps of up to        *)
(* MaxClauses clauses; a clause is a keyword, a quote, a name and the text *)
(* up to the next clause.                                                  *)
(***************************************************************************)
MaxClauses == 3

Clause(kw, quote, name, tail) == [kw |-> kw, quote |-> quote, name |-> name, tail |-> tail]

Clauses ==
    {Clause("CREATE TABLE ", Backtick, "wp_a", " ("),
     Clause("REFERENCES ", Backtick, "wp_b", ");"),
     Clause("INSERT INTO ", Backtick, "wp_a", " VALUES ('wp_x');"),
     Clause("LOCK TABLES ", Backtick, "wp_a", " WRITE;"),
     Clause("UNLOCK TABLES ", Backtick, "wp_a", ";"),
     Clause("DROP TABLE IF EXISTS ", "\"", "wp_a", ";"),
     Clause("ALTER TABLE ", Backtick, "xwp_a", ";"),
     Clause("SELECT * FROM ", Backtick, "wp_a", ";"),
     Clause("create table ", Backtick, "wp_a", ";"),
     Clause("CREATE TABLE ", "", "wp_a", ";")}

Prefixes == {<<"wp_", "wp2_">>, <<"wp_", "wp_x_">>, <<"wp_", "wp_">>}

\* the text of a clause and of a dump
ClauseText(c) ==
    SqlChars(c.kw) \o SqlChars(c.quote) \o SqlChars(c.name) \o SqlChars(c.quote)
        \o SqlChars(c.tail)

RECURSIVE DumpText(_)
DumpText(dump) ==
    IF dump = <<>> THEN <<>> ELSE ClauseText(Head(dump)) \o DumpText(Tail(dump))

InitPrefix ==
    /\ InitWorkers
    /\ InitFiles
    /\ cfg = FullCfg
    /\ now = 1
    /\ \E dump \in SeqsUpTo(Clauses, MaxClauses), pr \in Prefixes :
          calc = [NoCalc EXCEPT !.fn = "replace_table_prefix_in_sql",
                                !.args = <<dump, pr[1], pr[2]>>]

call_replace_table_prefix_in_sql ==
    /\ calc.fn = "replace_table_prefix_in_sql" /\ ~calc.done
    /\ calc' = [calc EXCEPT
                  !.done = TRUE,
                  !.result = replace_table_prefix_in_sql(DumpText(calc.args[1]),
                                                         calc.args[2], calc.args[3])]
    /\ UNCHANGED <<stores, win, gui>>

NextPrefix == call_replace_table_prefix_in_sql

SpecPrefix == InitPrefix /\ [][NextPrefix]_vars

(***************************************************************************)
(* SpecUrl: normalize_url called on the URLs made of a lead, a scheme, a   *)
(* rest and a trail.                                                       *)
(***************************************************************************)
Leads == {<<>>,
         <<" ">>,
         <<Newline>>}

Schemes == {<<"h", "t", "t", "p", ":", "/", "/">>,
           <<"h", "t", "t", "p", "s", ":", "/", "/">>,
           <<"h", "t", "t", "p", ":", "/">>,
           <<"h", "t", "t", "p", "s", ":", "/">>,
           <<"f", "t", "p", ":", "/", "/">>,
           <<>>,
           <<"h", "t", "t", "p", ":">>,
           <<"H", "T", "T", "P", ":", "/", "/">>}

Rests == {<<>>,
         <<"a">>,
         <<"e", "x", "a", "m", "p", "l", "e", ".", "c", "o", "m">>,
         <<"a", "/", "b">>,
         <<"a", " ", "b">>,
         <<Newline, "a">>,
         <<"/", "a">>}

Trails == {<<>>,
          <<"/">>,
          <<"/", "/">>,
          <<" ">>,
          <<"/", " ">>,
          <<" ", "/">>,
          <<Newline>>}

InitUrl ==
    /\ InitWorkers
    /\ InitFiles
    /\ cfg = FullCfg
    /\ now = 1
    /\ \E lead \in Leads, scheme \in Schemes, rest \in Rests, trail \in Trails :
          calc = [NoCalc EXCEPT !.fn = "normalize_url",
                                !.args = <<lead \o scheme \o rest \o trail>>]

call_normalize_url ==
    /\ calc.fn = "normalize_url" /\ ~calc.done
    /\ calc' = [calc EXCEPT !.done = TRUE, !.result = normalize_url(calc.args[1])]
    /\ UNCHANGED <<stores, win, gui>>

NextUrl == call_normalize_url

SpecUrl == InitUrl /\ [][NextUrl]_vars

(***************************************************************************)
(* SpecUrlLoad: the URL normalize_url returned is saved with the           *)
(* configuration and loaded again.                                         *)
(***************************************************************************)
\* DatabaseConfig.to_dict stores the URL as it is; DatabaseConfig.from_dict
\* hands the stored URL to normalize_url
call_from_dict ==
    /\ calc.fn = "normalize_url" /\ calc.done
    /\ calc' = [fn |-> "from_dict", args |-> <<calc.result>>, done |-> TRUE,
                result |-> normalize_url(calc.result)]
    /\ UNCHANGED <<stores, win, gui>>

NextUrlLoad ==
    \/ call_normalize_url
    \/ call_from_dict

SpecUrlLoad == InitUrl /\ [][NextUrlLoad]_vars

(***************************************************************************)
(* SpecCfg: the ConfigService calls on the site list, made from two        *)
(* threads in any interleaving.                                            *)
(***************************************************************************)
InitCfg ==
    /\ InitWorkers
    /\ calc = NoCalc
    /\ sitesFile \in {<<>>, <<NewSite(Site)>>,
                       <<NewSite(Other), [NewSite(Site) EXCEPT !.last_pushed_commit = 2]>>}
    /\ syncFile = [k \in {Other} |-> EmptySync]
    /\ head = 2
    /\ localMtime = [f \in RemoteFiles |-> Absent]
    /\ remoteMtime = [f \in RemoteFiles |-> 1]
    /\ cfg = FullCfg
    /\ now = 1

NextCfg == CfgStep

SpecCfg == InitCfg /\ [][NextCfg]_vars

(***************************************************************************)
(* SpecCfgSeq: the ConfigService calls on the site list, one call at a     *)
(* time.                                                                   *)
(***************************************************************************)
OneCall == Cardinality({t \in Threads : cops[t].pc # "idle"}) <= 1

NextCfgSeq == CfgStep /\ OneCall'

SpecCfgSeq == InitCfg /\ [][NextCfgSeq]_vars

(***************************************************************************)
(* SpecEdit: file pushes, database operations and edits in the site        *)
(* dialog, one at a time, of a site that has been pushed before and that   *)
(* was imported with exclude patterns of its own.                          *)
(***************************************************************************)
InitEdit ==
    /\ InitWorkers
    /\ calc = NoCalc
    /\ \E t \in 0..1 :
          sitesFile = <<NewSite(Other),
                        [NewSite(Site) EXCEPT !.last_pushed_commit = 1,
                                              !.last_db_pushed_at = t]>>
    /\ syncFile = [k \in {Other} |-> EmptySync]
    /\ head = 2
    /\ localMtime = [f \in RemoteFiles |-> Absent]
    /\ remoteMtime = [f \in RemoteFiles |-> IF f = "up/2.jpg" THEN MaxTime ELSE 1]
    /\ cfg = [FullCfg EXCEPT !.exclude_patterns = <<"*.log">>]
    /\ now = 1

edit_site_dialog == \E settings \in Cfgs : SiteDialogSave(settings)

NextEdit ==
    \/ AllIdle /\ do_push
    \/ PushStep
    \/ AllIdle /\ do_db
    \/ DbStep
    \/ AllIdle /\ edit_site_dialog
    \/ AllIdle /\ Commit

SpecEdit == InitEdit /\ [][NextEdit]_vars

(***************************************************************************)
(* SpecWin: the buttons of the Push and Pull tabs clicked in any order     *)
(* while earlier operations run; SpecWinLive adds that every started       *)
(* thread goes on to its end and that the main loop keeps running the      *)
(* queued callbacks.                                                       *)
(***************************************************************************)
InitWin ==
    /\ InitWorkers
    /\ calc = NoCalc
    /\ InitFiles
    /\ cfg = FullCfg
    /\ now = 1

NextWin ==
    \/ \E op \in ButtonOps : ButtonClick(op)
    \/ \E k \in 1..MaxThreads : CloseProgressWindow(k)
    \/ \E k \in 1..MaxThreads : ThreadStep(k)
    \/ update_ui

SpecWin == InitWin /\ [][NextWin]_vars

SpecWinLive ==
    /\ InitWin
    /\ [][NextWin]_vars
    /\ \A k \in 1..MaxThreads : WF_vars(ThreadStep(k))
    /\ WF_vars(update_ui)

(***************************************************************************)
(* SpecPush: file pushes alone, from every stored last_pushed_commit       *)
(* (0 is the empty hash of a site never pushed) and every HEAD.            *)
(***************************************************************************)
InitPush ==
    /\ InitWorkers
    /\ calc = NoCalc
    /\ head \in 1..MaxCommit
    /\ sitesFile \in {<<NewSite(Other), [NewSite(Site) EXCEPT !.last_pushed_commit = c]>> :
                         c \in 0..MaxCommit}
    /\ get_site(sitesFile, Site).last_pushed_commit <= head
    /\ syncFile = [k \in {Other} |-> EmptySync]
    /\ localMtime = [f \in RemoteFiles |-> Absent]
    /\ remoteMtime = [f \in RemoteFiles |-> 1]
    /\ cfg \in Cfgs
    /\ now = 1

NextPush ==
    \/ AllIdle /\ do_push
    \/ PushStep
    \/ AllIdle /\ Commit

SpecPush == InitPush /\ [][NextPush]_vars

(***************************************************************************)
(* SpecPull: pulls by date alone, with several include paths, over local   *)
(* copies that are absent, older or newer than the remote files.           *)
(***************************************************************************)
InitPull ==
    /\ InitWorkers
    /\ calc = NoCalc
    /\ sitesFile = <<NewSite(Other), NewSite(Site)>>
    /\ syncFile = [k \in {Other} |-> EmptySync]
    /\ head = 1
    /\ localMtime \in {[f \in RemoteFiles |-> t] : t \in {Absent, 1, MaxTime}}
    /\ remoteMtime = [f \in RemoteFiles |-> IF f = "up/2.jpg" THEN MaxTime ELSE 1]
    /\ cfg \in {FullCfg, [FullCfg EXCEPT !.push_newer_only = FALSE]}
    /\ now = 1

NextPull ==
    \/ AllIdle /\ call_pull
    \/ PullStep

SpecPull == InitPull /\ [][NextPull]_vars

(***************************************************************************)
(* Push bookkeeping (checked under Spec).                                  *)
(***************************************************************************)
StoredSite == get_site(sitesFile, Site)

\* C1 as stated, with no database operation involved: whenever push has
\* returned success, the stored last_pushed_commit is the commit that was HEAD
\* when the push started.
C1_AsStated ==
    (/\ push.pc = "done" /\ push.mode = "push" /\ push.result.success
     /\ db.pc = "idle"
     /\ StoredSite # NoSite
     /\ StoredSite.last_db_pushed_at = 0 /\ StoredSite.last_db_pulled_at = 0)
    => StoredSite.last_pushed_commit = push.current_commit

\* C1 amended: the commit is read once, when the call starts, and kept to the
\* end of the call; the write that follows the upload loop stores exactly that
\* commit, wherever HEAD is by then; the "No files to push" return writes
\* nothing.
C1_RecordsStartCommit ==
    [][ /\ (push.pc = "idle" /\ push'.pc = "select" /\ push'.mode # "push_from_commits")
              => push'.current_commit = head
        /\ (push.pc # "idle" /\ push'.pc # "idle" /\ push.mode # "push_from_commits")
              => push'.current_commit = push.current_commit
        /\ (push.pc = "update_site_save" /\ push'.pc = "get_sync")
              => get_site(sitesFile', Site).last_pushed_commit = push.current_commit
        /\ (push.pc = "select" /\ push'.pc = "done") => sitesFile' = sitesFile
      ]_vars

\* C1 witness: a push that uploaded a file has returned success, HEAD has
\* moved since it started, and the stored commit is the one read at the start.
C1_Witness ==
    /\ push.pc = "done" /\ push.mode = "push" /\ push.result.success
    /\ push.files_pushed > 0
    /\ head # push.current_commit
    /\ StoredSite.last_pushed_commit = push.current_commit

\* C2: a step of push or push_all changes the stored site list only in the
\* write that follows the exhausted loop (every file of the batch attempted),
\* and only once per call; a call the loop of which ends with an exception
\* has written nothing.
C2_WriteOnceAfterBatch ==
    [][ /\ (push' # push /\ sitesFile' # sitesFile)
              => /\ push.pc = "update_site_save"
                 /\ push.idx = Len(push.files)
                 /\ push.commit_writes = 0
                 /\ push'.commit_writes = 1
        /\ (push.pc = "loop" /\ push'.pc = "done") => push.commit_writes = 0
        /\ (push.pc = "loop" /\ push' # push) => sitesFile' = sitesFile
      ]_vars

\* C2 witness: push_all was aborted by an exception after its first file was
\* uploaded and before the second; the stored commit is the one it started from.
C2_Witness ==
    /\ push.pc = "done" /\ ~push.result.success
    /\ push.files_pushed = 1 /\ push.idx < Len(push.files)
    /\ push.commit_writes = 0
    /\ StoredSite.last_pushed_commit = push.site.last_pushed_commit

(***************************************************************************)
(* No mutual exclusion, wholesale writes (checked under Spec).             *)
(***************************************************************************)
\* C3: the files are written back wholesale from the copy the operation
\* holds: the sync-state save of a push stores the last_pull record the push
\* read earlier, the save of a pull stores the last_push record the pull read
\* earlier, and the site-list save of a database operation stores the
\* last_pushed_commit it read when it started, whatever the other operations
\* have stored since.
C3_WholesaleWrites ==
    [][ /\ (push.pc = "update_sync_save" /\ push'.pc = "done")
              => syncFile'[Site].last_pull = push.sync.last_pull
        /\ (pull.pc = "update_sync_save" /\ pull'.pc = "done")
              => syncFile'[Site].last_push = pull.sync.last_push
        /\ (db.pc = "update_site_save" /\ db'.pc = "done")
              => get_site(sitesFile', Site).last_pushed_commit = db.site.last_pushed_commit
      ]_vars

\* C3 witness (lost update): a push and a pull of the same site ran at the same
\* time and both returned success, the pull stored its last_pull record, and
\* the stored sync state has no last_pull record: the push wrote its stale
\* copy over it.
C3_Witness ==
    /\ push.pc = "done" /\ push.result.success /\ push.result.message = "Push completed"
    /\ pull.pc = "done" /\ pull.result.success /\ pull.result.message = "Pull completed"
    /\ syncFile[Site].last_push = PushOperationState(push)
    /\ syncFile[Site].last_pull = NoOp

(***************************************************************************)
(* Database transfer: order of the steps, backup (checked under SpecSeq).  *)
(***************************************************************************)
\* the positions of db.log that hold the given step
StepsAt(step) == {i \in 1..Len(db.log) : db.log[i].step = step}

\* C4: with backup_before_import enabled, every import command is preceded by
\* a backup export and followed by none, and whatever the result of the
\* backup export the step issued next is the import.
C4_BackupThenImport ==
    cfg.backup_before_import =>
        /\ \A i \in StepsAt("import") :
              /\ \E j \in StepsAt("backup") : j < i
              /\ \A j \in StepsAt("backup") : j < i
        /\ \A j \in StepsAt("backup") :
              IF j < Len(db.log) THEN db.log[j + 1].step = "import"
              ELSE db.pc = "import"

\* C4 witness: the backup export failed and the import was issued after it.
C4_Witness ==
    /\ cfg.backup_before_import
    /\ \E j \in StepsAt("backup") :
          /\ ~db.log[j].ok
          /\ j < Len(db.log)
          /\ db.log[j + 1].step = "import"

\* C5: from the moment the backup export has succeeded to the return of the
\* call, the backup file is present as written, in particular after a failed
\* import and after the cleanup of the finally clause.
C5_BackupKept ==
    db.backup_created => dbFiles.backup = "present"

\* C5 witness: the call has returned failure because the import failed, the
\* finally clause has removed the local dump, the backup created before the
\* import is present.
C5_Witness ==
    /\ db.pc = "done" /\ ~db.result.success
    /\ db.backup_created
    /\ Len(db.log) > 0
    /\ db.log[Len(db.log)] = LogEntry("import", FALSE)
    /\ dbFiles.local_dump = "absent"
    /\ dbFiles.backup = "present"

\* C6: an import is issued only after a successful export and, after it, a
\* successful transfer of the dump; a search-replace is issued only after a
\* successful import and only when both URLs are non-empty, and it replaces
\* the URL of the source (local for a push, remote for a pull) by the URL of
\* the destination.
C6_StepOrder ==
    /\ \A i \in StepsAt("import") :
          \E j \in StepsAt("export"), k \in StepsAt("transfer") :
              j < k /\ k < i /\ db.log[j].ok /\ db.log[k].ok
    /\ \A i \in StepsAt("search_replace") :
          /\ \E j \in StepsAt("import") : j < i /\ db.log[j].ok
          /\ cfg.local_url # "" /\ cfg.remote_url # ""
          /\ db.log[i].src = (IF db.dir = "push" THEN cfg.local_url ELSE cfg.remote_url)
          /\ db.log[i].dst = (IF db.dir = "push" THEN cfg.remote_url ELSE cfg.local_url)
    /\ (cfg.local_url = "" \/ cfg.remote_url = "") => StepsAt("search_replace") = {}

\* C6 witness: a database pull has run export, download, import and then
\* search-replace from the remote URL to the local URL.
C6_Witness ==
    /\ db.dir = "pull"
    /\ Len(db.log) > 0
    /\ db.log[Len(db.log)].step = "search_replace"
    /\ db.log[Len(db.log)].src = cfg.remote_url
    /\ db.log[Len(db.log)].dst = cfg.local_url
    /\ cfg.remote_url # cfg.local_url

(***************************************************************************)
(* Folder transfer: the temporary archives (checked under SpecSeq).        *)
(***************************************************************************)
\* the positions of fold.log that hold a step of the i-th folder
FolderSteps(i) == {k \in 1..Len(fold.log) : fold.log[k].folder = i}

\* C7 as stated, for the folders the archive of which was handed to the
\* transfer: once the processing of the folder is over, its archive exists
\* neither in the local temp directory nor in the remote /tmp.
C7_AsStated ==
    \A i \in fold.ended :
        (\E k \in FolderSteps(i) : fold.log[k].step = "transfer")
            => (~zips[i].local /\ ~zips[i].remote)

(***************************************************************************)
(* Failures and results (checked under SpecSeq).                           *)
(***************************************************************************)
Workers == <<push, pull, db, fold>>

FatalDbSteps ==
    {"verify_local", "connect", "verify_remote", "export", "prefix", "transfer", "import"}

C9_AsStated ==
    /\ \A i \in 1..Len(Workers) :
          Workers[i].pc = "done" => Workers[i].result.kind = "tuple"
    /\ (push.pc = "done" /\ push.files_failed > 0) => ~push.result.success
    /\ (pull.pc = "done" /\ pull.files_failed > 0) => ~pull.result.success
    /\ (fold.pc = "done" /\ fold.folders_failed > 0) => ~fold.result.success
    /\ (db.pc = "done" /\ \E i \in 1..Len(db.log) : ~db.log[i].ok)
          => ~db.result.success

\* the messages of the except Exception handlers
ExceptionMessages ==
    {"Push failed", "Pull failed", "Database operation failed", "folders failed"}

\* C9 amended: every operation that has returned has returned a tuple with a
\* message, no exception has left it; the result of an exception handler and
\* of a failed fatal database step has success = False; an operation that has
\* not returned has no result.
C9_TupleOnEveryPath ==
    \A i \in 1..Len(Workers) :
        /\ Workers[i].pc = "done" =>
              /\ Workers[i].result.kind = "tuple"
              /\ Workers[i].result.message # ""
              /\ Workers[i].result.message \in ExceptionMessages
                    => ~Workers[i].result.success
        /\ Workers[i].pc # "done" => Workers[i].result = NoResult
        /\ (\E k \in 1..Len(db.log) : ~db.log[k].ok /\ db.log[k].step \in FatalDbSteps)
              => (db.pc = "done" /\ ~db.result.success)

\* C9 witness: an exception in the download loop of a pull, after a file was
\* downloaded, was returned as a failure tuple.
C9_Witness ==
    /\ pull.pc = "done"
    /\ pull.result = [kind |-> "tuple", success |-> FALSE, message |-> "Pull failed"]
    /\ pull.files_pulled > 0

(***************************************************************************)
(* Pull by date run twice (checked under SpecSeq).                         *)
(***************************************************************************)
\* the running pull has the parameters of the pull before it, newer-only
\* skipping is enabled (no action of the model changes a remote file)
SecondRun ==
    /\ prevPull.valid
    /\ pull.pc \in {"loop", "update_sync_load", "update_sync_save", "done"}
    /\ pull.start_date = prevPull.start_date
    /\ pull.end_date = prevPull.end_date
    /\ pull.include_paths = prevPull.include_paths
    /\ cfg.push_newer_only

PushCandidates ==
    {f \in {RepoPaths[k] : k \in 1..Len(RepoPaths)} :
        /\ Blob(push.current_commit, f) # 0
        /\ (push.mode = "push" /\ push.site.last_pushed_commit # 0)
              => Blob(push.current_commit, f) # Blob(push.site.last_pushed_commit, f)
        /\ ~should_exclude(f, cfg.exclude_patterns)}

InIncludes(f) ==
    \E k \in 1..Len(pull.include_paths) :
        Under(f, Strip(PathChars(pull.include_paths[k])))

\* below an include path, modified within the date range, not excluded
PullEligible(f) ==
    /\ InIncludes(f)
    /\ pull.start_date <= remoteMtime[f] /\ remoteMtime[f] <= pull.end_date
    /\ ~should_exclude(f, cfg.exclude_patterns)

\* the step is a download of the file the loop is at
Downloads == pull.pc = "loop" /\ pull'.files_pulled = pull.files_pulled + 1

C13_AsStated ==
    /\ \A i \in StepsAt("import") :
          PrefixesDiffer =>
              \E j \in StepsAt("prefix") :
                  /\ j < i /\ db.log[j].ok
                  /\ db.log[j].src = (IF db.dir = "push" THEN cfg.local_table_prefix
                                      ELSE cfg.remote_table_prefix)
                  /\ db.log[j].dst = (IF db.dir = "push" THEN cfg.remote_table_prefix
                                      ELSE cfg.local_table_prefix)
    /\ ~PrefixesDiffer => (StepsAt("prefix") = {} /\ dbFiles.local_dump # "modified")

(***************************************************************************)
(* The site list (checked under SpecCfg).                                  *)
(***************************************************************************)
\* C14: no two records of the stored site list have the same id.
C14_UniqueIds ==
    \A i, j \in 1..Len(sitesFile) : sitesFile[i].id = sitesFile[j].id => i = j

\* C14 witness: an add_site and an import_site_from_json, run at the same
\* time on two threads with the same new id, have both saved; the list holds
\* that id once.
C14_Witness ==
    /\ cops["gui"].pc = "done" /\ cops["gui"].op = "add" /\ cops["gui"].result = "site"
    /\ cops["worker"].pc = "done" /\ cops["worker"].op = "import"
    /\ cops["worker"].result = "site"
    /\ cops["worker"].site.id = cops["gui"].site.id
    /\ \E i \in 1..Len(sitesFile) : sitesFile[i].id = cops["gui"].site.id

\* the step is thread t's import_site_from_json reading and checking its file
ImportLoads(t) == cops[t].pc = "idle" /\ cops'[t].op = "import"

\* the step is the save of the site list by thread t's import
ImportSaves(t) ==
    cops[t].pc = "add_save" /\ cops[t].op = "import" /\ cops'[t] # cops[t]

\* the step is the end of thread t's import
ImportEnds(t) == cops[t].pc = "credentials" /\ cops'[t] # cops[t]

\* the record the import saves: no id of the list read, tracking fields empty,
\* appended to the list read, whose records are kept as they are
ImportSavesFresh(t) ==
    /\ ~IdTaken(cops[t].sites, cops[t].site.id)
    /\ cops[t].site.last_pushed_commit = 0
    /\ cops[t].site.last_db_pushed_at = 0
    /\ cops[t].site.last_db_pulled_at = 0
    /\ sitesFile' = Append(cops[t].sites, cops[t].site)
    /\ cops[t].sites = sitesFile =>
          /\ Len(sitesFile') = Len(sitesFile) + 1
          /\ \A i \in 1..Len(sitesFile) : sitesFile'[i] = sitesFile[i]

\* an envelope that is not valid: nothing is added, None is returned
ImportRejects(t) ==
    ~ValidEnvelope(cops'[t].env)
        => /\ cops'[t].pc = "done" /\ cops'[t].result = "None"
           /\ sitesFile' = sitesFile /\ keyring' = keyring

\* C15 as stated: the import of a valid envelope goes on to add the site and
\* returns it with the credentials stored under the new id; an invalid
\* envelope adds nothing and returns None.
C15_AsStated ==
    [][ \A t \in Threads :
          /\ ImportLoads(t) =>
                /\ ImportRejects(t)
                /\ ValidEnvelope(cops'[t].env) => cops'[t].pc = "add_save"
          /\ ImportSaves(t) => ImportSavesFresh(t)
          /\ ImportEnds(t) =>
                /\ cops'[t].result = "site"
                /\ cops[t].env.ssh_password => cops[t].site.id \in keyring'
      ]_vars

\* C15 failing case: the import of a valid envelope with a password has
\* returned None, and the site it added is stored, without its password.
C15_Witness ==
    /\ cops["gui"].pc = "done" /\ cops["gui"].op = "import"
    /\ ValidEnvelope(cops["gui"].env) /\ cops["gui"].env.ssh_password
    /\ cops["gui"].result = "None"
    /\ sitesFile = <<NewSite(Other), [NewSite(Site) EXCEPT !.last_pushed_commit = 2],
                     NewSite("s3")>>
    /\ cops["gui"].site.id = "s3"
    /\ "s3" \notin keyring

(***************************************************************************)
(* The sync-state record of a file push and of a file pull (SpecSync).     *)
(***************************************************************************)
\* the step ends a push call whose transfer loop was exhausted
PushEndsAfterLoop ==
    /\ push.pc # "done" /\ push'.pc = "done"
    /\ push'.files # <<>> /\ push'.idx = Len(push'.files)

\* the step ends a pull call whose transfer loop was exhausted
PullEndsAfterLoop ==
    /\ pull.pc # "done" /\ pull'.pc = "done"
    /\ pull'.files # <<>> /\ pull'.idx = Len(pull'.files)

\* the step writes sync_state.json for our site and leaves the records of
\* the other sites and our record of the other kind as they are stored
WritesOnly(kind, record) ==
    /\ DOMAIN syncFile' = DOMAIN syncFile \cup {Site}
    /\ \A k \in DOMAIN syncFile : k # Site => syncFile'[k] = syncFile[k]
    /\ syncFile'[Site] =
          IF kind = "last_push"
          THEN [last_push |-> record,
                last_pull |-> get_sync_state(syncFile, Site).last_pull]
          ELSE [last_push |-> get_sync_state(syncFile, Site).last_push,
                last_pull |-> record]

StatusOf(files_failed) == IF files_failed = 0 THEN "success" ELSE "partial"

\* sync_state.json changes only in the step that ends a call with success
FailedWritesNothing ==
    /\ (push.pc # "done" /\ push'.pc = "done" /\ ~push'.result.success)
          => syncFile' = syncFile
    /\ (pull.pc # "done" /\ pull'.pc = "done" /\ ~pull'.result.success)
          => syncFile' = syncFile
    /\ syncFile' # syncFile
          => \/ push.pc # "done" /\ push'.pc = "done" /\ push'.result.success
             \/ pull.pc # "done" /\ pull'.pc = "done" /\ pull'.result.success

\* C16 as stated: a push or pull that ends after its transfer loop was
\* exhausted has replaced just its own record of the site, with the status by
\* the failed count and, for every kind of push, the commit that was HEAD when
\* the push started; a failed call writes nothing.
C16_AsStated ==
    [][ /\ PushEndsAfterLoop =>
              WritesOnly("last_push",
                         [status |-> StatusOf(push'.files_failed),
                          files_count |-> push'.files_pushed,
                          commit_hash |-> push'.head_at_start])
        /\ PullEndsAfterLoop =>
              WritesOnly("last_pull",
                         [status |-> StatusOf(pull'.files_failed),
                          files_count |-> pull'.files_pulled,
                          commit_hash |-> 0])
        /\ FailedWritesNothing
      ]_vars

\* C16 amended: as stated for push, push_all and pull; a push_from_commits
\* reads HEAD after its transfer loop: it records that commit, and writes no
\* record when the read fails.
C16_SyncRecord ==
    [][ /\ (PushEndsAfterLoop /\ push'.mode # "push_from_commits") =>
              WritesOnly("last_push",
                         [status |-> StatusOf(push'.files_failed),
                          files_count |-> push'.files_pushed,
                          commit_hash |-> push'.head_at_start])
        /\ (PushEndsAfterLoop /\ push'.mode = "push_from_commits") =>
              IF push'.result.success
              THEN WritesOnly("last_push",
                              [status |-> StatusOf(push'.files_failed),
                               files_count |-> push'.files_pushed,
                               commit_hash |-> push'.current_commit])
              ELSE syncFile' = syncFile
        /\ (push.pc = "loop" /\ push'.pc = "get_sync"
                /\ push.mode = "push_from_commits") => push'.current_commit = head
        /\ PullEndsAfterLoop =>
              WritesOnly("last_pull",
                         [status |-> StatusOf(pull'.files_failed),
                          files_count |-> pull'.files_pulled,
                          commit_hash |-> 0])
        /\ FailedWritesNothing
      ]_vars

\* C16 witness: a push with a failed file has ended while a commit was made
\* during the transfer: the record is 'partial' with the commit of the start,
\* next to the last_pull record and the other site's records as stored.
C16_Witness ==
    /\ push.pc = "done" /\ push.mode = "push" /\ push.result.success
    /\ push.files_failed > 0 /\ push.idx = Len(push.files)
    /\ head # push.head_at_start
    /\ syncFile[Site].last_push.status = "partial"
    /\ syncFile[Site].last_push.commit_hash = push.head_at_start
    /\ syncFile[Site].last_pull = StoredSync.last_pull
    /\ syncFile[Other] = StoredSync

(***************************************************************************)
(* Widget updates and threads (SpecGui).                                   *)
(***************************************************************************)
\* C17 as stated: every widget update is made by the GUI thread, in every
\* operation.
C17_AsStated == \A m \in gui.mutations : m.by = "gui"

\* C17 failing case: the thread of push-entire-site has set the label of the
\* progress dialog itself, while the GUI thread runs its main loop.
C17_Witness ==
    /\ gui.op = "do_push_entire_site" /\ gui.pc = "thread"
    /\ Mutation("progress.label", "thread") \in gui.mutations

(***************************************************************************)
(* filter_files (SpecFilter).  The matching of the claim is written on the *)
(* components of the path, whichever separator they are written with.      *)
(***************************************************************************)
IsSep(c) == c = "/" \/ c = "\\"

\* the components of a path: the runs of characters between separators
RECURSIVE Components(_)
Components(s) ==
    IF \A i \in 1..Len(s) : ~IsSep(s[i]) THEN <<s>>
    ELSE LET k == CHOOSE i \in 1..Len(s) :
                      IsSep(s[i]) /\ \A j \in 1..(i - 1) : ~IsSep(s[j])
         IN  <<SubSeq(s, 1, k - 1)>> \o Components(SubSeq(s, k + 1, Len(s)))

\* the path written with '/'
Slashed(s) == [i \in 1..Len(s) |-> IF IsSep(s[i]) THEN "/" ELSE s[i]]

\* run is a run of consecutive components of comps
IsRun(run, comps) ==
    \E i \in 1..(Len(comps) - Len(run) + 1) : SubSeq(comps, i, i + Len(run) - 1) = run

\* the pattern ends with a separator and its components before it are a run
\* of the components given
DirPattern(pat, comps) ==
    /\ IsSep(pat[Len(pat)])
    /\ IsRun(Components(SubSeq(pat, 1, Len(pat) - 1)), comps)

Front(s) == SubSeq(s, 1, Len(s) - 1)

\* a path matches a pattern as the claim says: the directories of a path are
\* its components but the last
MatchesAsStated(path, pattern) ==
    LET f == PathChars(path)
        pat == PathChars(pattern)
    IN  \/ fnmatch(Slashed(f), Slashed(pat))
        \/ fnmatch(Components(f)[Len(Components(f))], Slashed(pat))
        \/ DirPattern(pat, Front(Components(f)))

\* the same with the final file name among the components a pattern that
\* ends with a separator may name
Matches(path, pattern) ==
    LET f == PathChars(path)
        pat == PathChars(pattern)
    IN  \/ fnmatch(Slashed(f), Slashed(pat))
        \/ fnmatch(Components(f)[Len(Components(f))], Slashed(pat))
        \/ DirPattern(pat, Components(f))

\* C18 as stated: the result is the input paths, in order, that match no
\* pattern, a pattern with a final separator matching the directories of the
\* path only.
C18_AsStated ==
    (calc.fn = "filter_files" /\ calc.done) =>
        calc.result =
            SelectSeq(calc.args[1],
                      LAMBDA f : \A k \in 1..Len(calc.args[2]) :
                                    ~MatchesAsStated(f, calc.args[2][k]))

\* C18 amended: the result is the input paths, in order, that match no
\* pattern, where a pattern with a final separator matches a path when it
\* names a run of its components, the final file name included; the
\* separators may be written either way.
C18_FilterFiles ==
    (calc.fn = "filter_files" /\ calc.done) =>
        calc.result =
            SelectSeq(calc.args[1],
                      LAMBDA f : \A k \in 1..Len(calc.args[2]) :
                                    ~Matches(f, calc.args[2][k]))

\* C18 witness: of a path of a cache directory written with a backslash and
\* a jpg, filtered with the directory pattern written with a slash and a glob
\* for logs, the jpg is kept.
C18_Witness ==
    /\ calc.fn = "filter_files" /\ calc.done
    /\ calc.args = << <<"cache\\a.php", "up/1.jpg">>, <<"cache/", "*.log">> >>
    /\ calc.result = <<"up/1.jpg">>

(***************************************************************************)
(* replace_table_prefix_in_sql (SpecPrefix).                               *)
(***************************************************************************)
\* the name begins with the prefix
StartsWith(name, prefix) ==
    Len(name) >= Len(prefix) /\ SubSeq(name, 1, Len(prefix)) = prefix

\* a clause with the prefix of its name rewritten once, when the name is
\* quoted, begins with the old prefix and follows one of the seven keywords
RewrittenClause(c, old, new) ==
    IF /\ \E k \in 1..Len(patterns) : patterns[k] = c.kw
       /\ c.quote \in Quotes
       /\ StartsWith(SqlChars(c.name), SqlChars(old))
    THEN SqlChars(c.kw) \o SqlChars(c.quote) \o SqlChars(new)
            \o SubSeq(SqlChars(c.name), Len(SqlChars(old)) + 1, Len(SqlChars(c.name)))
            \o SqlChars(c.quote) \o SqlChars(c.tail)
    ELSE ClauseText(c)

RECURSIVE RewrittenDump(_, _, _)
RewrittenDump(dump, old, new) ==
    IF dump = <<>> THEN <<>>
    ELSE RewrittenClause(Head(dump), old, new) \o RewrittenDump(Tail(dump), old, new)

\* C19 as stated: with different prefixes the dump after the call is the dump
\* before it with the prefix of every quoted table name that follows one of
\* the seven keywords rewritten once, and nothing else changed.
C19_AsStated ==
    (/\ calc.fn = "replace_table_prefix_in_sql" /\ calc.done
     /\ calc.args[2] # calc.args[3])
    => calc.result = RewrittenDump(calc.args[1], calc.args[2], calc.args[3])

\* C19 failing case: wp_ is rewritten to wp_x_ in a dump with an UNLOCK
\* TABLES clause, and the name in the dump is wp_x_x_a.
C19_Witness ==
    /\ calc.fn = "replace_table_prefix_in_sql" /\ calc.done
    /\ calc.args = << <<Clause("UNLOCK TABLES ", Backtick, "wp_a", ";")>>, "wp_", "wp_x_" >>
    /\ calc.result = SqlChars("UNLOCK TABLES ") \o SqlChars(Backtick) \o SqlChars("wp_x_")
                         \o <<"x", "_", "a">> \o SqlChars(Backtick) \o SqlChars(";")

\* the dump of the claim's example: one CREATE TABLE, one REFERENCES and one
\* INSERT INTO with wp_, rewritten to wp2_, has wp2_ in these three names and
\* wp_ in the value of the INSERT
C19_Example ==
    (/\ calc.fn = "replace_table_prefix_in_sql" /\ calc.done
     /\ calc.args = << <<Clause("CREATE TABLE ", Backtick, "wp_a", " ("),
                          Clause("REFERENCES ", Backtick, "wp_b", ");"),
                          Clause("INSERT INTO ", Backtick, "wp_a", " VALUES ('wp_x');")>>,
                        "wp_", "wp2_" >>)
    => calc.result =
          SqlChars("CREATE TABLE ") \o SqlChars(Backtick) \o SqlChars("wp2_a") \o SqlChars(Backtick)
            \o SqlChars(" (")
            \o SqlChars("REFERENCES ") \o SqlChars(Backtick) \o SqlChars("wp2_b") \o SqlChars(Backtick)
            \o SqlChars(");")
            \o SqlChars("INSERT INTO ") \o SqlChars(Backtick) \o SqlChars("wp2_a") \o SqlChars(Backtick)
            \o SqlChars(" VALUES ('wp_x');")

(***************************************************************************)
(* normalize_url (SpecUrl).  What the claim says of the result is written  *)
(* on the positions of the input.                                          *)
(***************************************************************************)
\* the input from its first to its last character that is no whitespace
Trimmed(s) ==
    LET solid == {i \in 1..Len(s) : s[i] \notin Whitespace}
    IN  IF solid = {} THEN <<>>
        ELSE SubSeq(s, CHOOSE i \in solid : \A j \in solid : i <= j,
                       CHOOSE i \in solid : \A j \in solid : j <= i)

\* the text up to its last character that is no slash
NoTrailingSlashes(s) ==
    LET solid == {i \in 1..Len(s) : s[i] # "/"}
    IN  IF solid = {} THEN <<>>
        ELSE SubSeq(s, 1, CHOOSE i \in solid : \A j \in solid : j <= i)

\* the single-slash repair: a second slash is put behind http:/ or https:/
Repaired(s) ==
    IF \E scheme \in {Http, Https} :
          StartsWith(s, scheme \o <<"/">>) /\ ~StartsWith(s, scheme \o <<"/", "/">>)
    THEN LET scheme == CHOOSE c \in {Http, Https} : StartsWith(s, c \o <<"/">>)
         IN  scheme \o <<"/", "/">> \o SubSeq(s, Len(scheme) + 2, Len(s))
    ELSE s

Cleaned(s) == Repaired(NoTrailingSlashes(Trimmed(s)))

HasScheme(s) ==
    StartsWith(s, Http \o <<"/", "/">>) \/ StartsWith(s, Https \o <<"/", "/">>)

\* a line feed directly follows the two slashes of the scheme
LineFeedFirst(s) ==
    \E scheme \in {Http \o <<"/", "/">>, Https \o <<"/", "/">>} :
        /\ StartsWith(s, scheme)
        /\ Len(s) > Len(scheme)
        /\ s[Len(scheme) + 1] = Newline

\* C20 as stated: the result is empty for the empty input and for an input
\* without http:// or https:// at its start after the repair, and is the
\* input without surrounding whitespace and trailing slashes, repaired, for
\* every other input.
C20_AsStated ==
    (calc.fn = "normalize_url" /\ calc.done) =>
        calc.result = IF calc.args[1] = <<>> \/ ~HasScheme(Cleaned(calc.args[1]))
                      THEN <<>>
                      ELSE Cleaned(calc.args[1])

\* C20 amended: as stated, and the result is empty as well when a line feed
\* directly follows the :// of the cleaned input; the whitespace is removed
\* before the slashes, and the repair is made last.
C20_NormalizeUrl ==
    (calc.fn = "normalize_url" /\ calc.done) =>
        calc.result = IF \/ calc.args[1] = <<>>
                         \/ ~HasScheme(Cleaned(calc.args[1]))
                         \/ LineFeedFirst(Cleaned(calc.args[1]))
                      THEN <<>>
                      ELSE Cleaned(calc.args[1])

\* C20 witness: "https:/example.com/" has become "https://example.com".
C20_Witness ==
    /\ calc.fn = "normalize_url" /\ calc.done
    /\ calc.args[1] = <<"h", "t", "t", "p", "s", ":", "/", "e", "x", "a", "m", "p", "l", "e", ".", "c", "o", "m", "/">>
    /\ calc.result = <<"h", "t", "t", "p", "s", ":", "/", "/", "e", "x", "a", "m", "p", "l", "e", ".", "c", "o", "m">>

(***************************************************************************)
(* add_site and update_site (SpecCfgSeq).                                  *)
(***************************************************************************)
\* the step is the load and check of thread t's add_site or update_site
CallChecks(t, op) == cops[t].pc = "idle" /\ cops'[t].op = op

\* the step is the save of thread t's add_site or update_site
CallSaves(t, op) ==
    cops[t].op = op /\ cops[t].pc \in {"add_save", "update_save"} /\ cops'[t] # cops[t]

Raises(t) ==
    /\ cops'[t].pc = "done" /\ cops'[t].result = "ValueError"
    /\ sitesFile' = sitesFile

\* C21: add_site of a stored id and update_site of an id that is not stored
\* raise ValueError with the stored list unchanged; an add_site that succeeds
\* stores the list with the new record appended, an update_site that
\* succeeds stores the list with the one record of that id replaced and
\* every other record as it was.
C21_AddUpdate ==
    [][ \A t \in Threads :
          /\ CallChecks(t, "add") =>
                IF \E i \in 1..Len(sitesFile) : sitesFile[i].id = cops'[t].site.id
                THEN Raises(t)
                ELSE cops'[t].pc = "add_save" /\ sitesFile' = sitesFile
          /\ CallChecks(t, "update") =>
                IF \A i \in 1..Len(sitesFile) : sitesFile[i].id # cops'[t].site.id
                THEN Raises(t)
                ELSE cops'[t].pc = "update_save" /\ sitesFile' = sitesFile
          /\ CallSaves(t, "add") =>
                /\ cops'[t].result = "site"
                /\ sitesFile' = sitesFile \o <<cops[t].site>>
          /\ CallSaves(t, "update") =>
                /\ cops'[t].result = "site"
                /\ Len(sitesFile') = Len(sitesFile)
                /\ \A i \in 1..Len(sitesFile) :
                      sitesFile'[i] = IF sitesFile[i].id = cops[t].site.id
                                      THEN cops[t].site ELSE sitesFile[i]
                /\ Cardinality({i \in 1..Len(sitesFile) :
                                  sitesFile[i].id = cops[t].site.id}) = 1
      ]_vars

\* C21 witness: after an add_site of a third id, an update_site of the second
\* of the three stored records has returned: the record has the new
\* last_pushed_commit, the first and the third record are as they were.
C21_Witness ==
    /\ cops["gui"].op = "update" /\ cops["gui"].pc = "done"
    /\ cops["gui"].result = "site"
    /\ sitesFile = <<NewSite(Other), [NewSite(Site) EXCEPT !.last_pushed_commit = 1],
                     NewSite("s3")>>
    /\ runs = 2

(***************************************************************************)
(* The site record written by a database operation (Spec: a file push, a   *)
(* pull and a database operation of the same site at the same time).       *)
(***************************************************************************)
\* C22 as stated: the write that ends a successful database push (pull)
\* changes last_db_pushed_at (last_db_pulled_at) of the stored record and no
\* other field, whatever was stored while the operation ran, and a step of a
\* database operation that is not that write leaves the site list as it is.
C22_AsStated ==
    [][ /\ (db.pc = "update_site_save" /\ db'.pc = "done") =>
              LET old == get_site(sitesFile, Site)
                  new == get_site(sitesFile', Site)
              IN  new = IF db.dir = "push"
                        THEN [old EXCEPT !.last_db_pushed_at = new.last_db_pushed_at]
                        ELSE [old EXCEPT !.last_db_pulled_at = new.last_db_pulled_at]
        /\ (db' # db /\ db.pc # "update_site_save") => sitesFile' = sitesFile
      ]_vars

\* C22 witness: a file push that uploaded a file and a database push have both
\* returned success, the file push stored its commit while the database push
\* was running, and the stored last_pushed_commit is the older one the
\* database push had read when it started.
C22_Witness ==
    /\ push.pc = "done" /\ push.result.success /\ push.commit_writes = 1
    /\ push.files_pushed > 0
    /\ db.pc = "done" /\ db.dir = "push" /\ db.result.success
    /\ StoredSite.last_db_pushed_at # 0
    /\ StoredSite.last_pushed_commit # push.current_commit
    /\ StoredSite.last_pushed_commit = db.site.last_pushed_commit

C24_AsStated ==
    /\ push.pc = "done" => ~push.sftp
    /\ pull.pc = "done" => ~pull.sftp
    /\ db.pc = "done" => ~db.ssh
    /\ fold.pc = "done" => (~fold.sftp /\ ~fold.ssh)

\* C24 witness: a push has returned "Push failed" from its exception handler
\* after one file was uploaded, and its SFTP session is still connected.
C24_Witness ==
    /\ push.pc = "done" /\ ~push.result.success
    /\ push.files_pushed = 1 /\ push.commit_writes = 0
    /\ push.sftp

(***************************************************************************)
(* The buttons of the Push and Pull tabs (SpecWin, SpecWinLive).           *)
(***************************************************************************)
\* the thread has been started and its update_ui has not run yet
Running(k) == win.thread[k].pc \notin {"none", "done"}

\* C25 as stated: while a push-entire-site (pull-entire-site) thread runs and
\* until its update_ui has run, the files, database and entire-site buttons of
\* that direction are disabled, whatever other threads run or end.
C25_AsStated ==
    \A k \in 1..MaxThreads :
        (win.thread[k].op \in EntireSiteOps /\ Running(k)) =>
            \A b \in Disables(win.thread[k].op) : win.button[b] = "disabled"

\* C25 failing case: a file push was running when Push Entire Site was
\* clicked; the update_ui of the file push has run, and the files button is
\* enabled while the entire-site thread is pushing the database.
C25_Witness ==
    /\ win.thread[1].op = "do_push" /\ win.thread[1].pc = "done"
    /\ win.thread[2].op = "do_push_entire_site" /\ win.thread[2].pc = "database"
    /\ win.button["push_files_button"] = "normal"
    /\ win.button["db_push_button"] = "disabled"

\* C26 as stated: a button that has been disabled is enabled again later,
\* given that every thread goes on to its end and the main loop runs the
\* queued callbacks.
C26_AsStated ==
    \A b \in Buttons : (win.button[b] = "disabled") ~> (win.button[b] = "normal")

\* C26 failing case: the window of the progress dialog was closed during a
\* database push; the thread has ended, its update_ui has run and stopped at
\* progress.close(), nothing is queued, and the button is disabled.
C26_Witness ==
    /\ win.thread[1].op = "do_db_push" /\ win.thread[1].pc = "done"
    /\ win.thread[1].dialog = "destroyed"
    /\ win.thread[2].pc = "none"
    /\ win.queue = <<>>
    /\ win.button["db_push_button"] = "disabled"

\* C27 as stated: the update_ui of an entire-site thread shows the success
\* message only if the database transfer succeeded and all three content
\* folders were transferred, and the folder transfer is started only after
\* the database transfer returned success.
C27_AsStated ==
    \A k \in 1..MaxThreads :
        /\ (win.thread[k].op \in EntireSiteOps /\ win.thread[k].shown = "success") =>
                /\ win.thread[k].db_success
                /\ win.thread[k].transferred = ContentFolders
        /\ win.thread[k].pc = "folders" => win.thread[k].db_success

\* C27 failing case: Push Entire Site has shown its success message after a
\* folder push in which only the themes folder was transferred.
C27_Witness ==
    /\ win.thread[1].op = "do_push_entire_site" /\ win.thread[1].pc = "done"
    /\ win.thread[1].shown = "success"
    /\ win.thread[1].db_success
    /\ win.thread[1].transferred = {"wp-content/themes/"}

(***************************************************************************)
(* The dump files at the return of a database operation (SpecSeq).         *)
(***************************************************************************)
\* C28 as stated: when a database push or pull has returned, on any path,
\* the dump in the local temp directory and the dump in the remote /tmp are
\* both gone.
C28_AsStated ==
    db.pc = "done" =>
        /\ dbFiles.local_dump = "absent"
        /\ dbFiles.remote_dump = "absent"

\* C28 failing case: a database push has returned failure after the import on
\* the remote server failed; the local dump is removed and the uploaded dump
\* is still in the remote /tmp.
C28_Witness ==
    /\ db.pc = "done" /\ db.dir = "push" /\ ~db.result.success
    /\ Len(db.log) > 0
    /\ db.log[Len(db.log)].step = "import" /\ ~db.log[Len(db.log)].ok
    /\ dbFiles.local_dump = "absent"
    /\ dbFiles.remote_dump = "present"

(***************************************************************************)
(* The counters of a file push and of a pull (SpecSeq).                    *)
(***************************************************************************)
\* push or push_all has returned and its upload loop was exhausted
PushLoopCompleted ==
    /\ push.pc = "done" /\ push.mode \in {"push", "push_all"}
    /\ push.files # <<>> /\ push.idx = Len(push.files)

\* pull has returned and its download loop was exhausted
PullLoopCompleted ==
    /\ pull.pc = "done"
    /\ pull.files # <<>> /\ pull.idx = Len(pull.files)

\* C29: when push, push_all or pull has returned with its transfer loop
\* completed, transferred + failed + skipped + missing is the number of
\* selected files, the transferred count is the length of stats['files'], and
\* the status of the record it stored is "success" exactly when no file failed.
C29_Counters ==
    /\ PushLoopCompleted =>
          /\ push.files_pushed + push.files_failed + push.files_skipped + push.missing
                = Len(push.files)
          /\ Len(push.pushed) = push.files_pushed
          /\ push.result.success =>
                (get_sync_state(syncFile, Site).last_push.status = "success"
                    <=> push.files_failed = 0)
    /\ PullLoopCompleted =>
          /\ pull.files_pulled + pull.files_failed + pull.files_skipped = Len(pull.files)
          /\ Len(pull.pulled) = pull.files_pulled
          /\ pull.result.success =>
                (get_sync_state(syncFile, Site).last_pull.status = "success"
                    <=> pull.files_failed = 0)

\* C29 witness: a push of two files has returned after one upload and one
\* failed upload, and the record it stored has the status "partial".
C29_Witness ==
    /\ PushLoopCompleted /\ push.result.success
    /\ Len(push.files) = 2
    /\ push.files_pushed = 1 /\ push.files_failed = 1
    /\ get_sync_state(syncFile, Site).last_push.status = "partial"

(***************************************************************************)
(* normalize_url applied to its own result (SpecUrlLoad).                  *)
(***************************************************************************)
\* C30 as stated: normalizing a URL that normalize_url returned gives the
\* same URL, so loading a saved configuration leaves the stored URL as it is.
C30_AsStated ==
    (calc.fn = "from_dict" /\ calc.done) => calc.result = calc.args[1]

\* C30 failing case: "http://a /" was normalized to "http://a " (the blank
\* stays when the slash behind it is removed) and saved; loading the saved
\* URL gives "http://a".
C30_Witness ==
    /\ calc.fn = "from_dict" /\ calc.done
    /\ calc.args[1] = <<"h", "t", "t", "p", ":", "/", "/", "a", " ">>
    /\ calc.result = <<"h", "t", "t", "p", ":", "/", "/", "a">>

====
